---- MODULE Spec2Model ----
(***************************************************************************)
(* DynamicBandpassFilter (src/src/DynamicBandpassFilter.{h,cpp}) as a      *)
(* state machine.  The object's fields are the variables; every public     *)
(* method is a sequence of steps taken by a calling thread, one step per   *)
(* lock acquisition or per group of atomic accesses.                       *)
(*                                                                         *)
(* Numbers.  Frequencies are whole Hz.  Gains are fixed point in units of  *)
(* 10^-9 (GainOne is 1.0f); a kernel is kept as the list of passes that    *)
(* wrote it, and a bin's gain is computed from those passes on demand.     *)
(* Timing (processing_time_ms) is not modelled.                            *)
(***************************************************************************)
EXTENDS Integers, Sequences, FiniteSets, TLC

\* ------------------------------------------------------------------ bounds

\* Largest cumulative sample count the model follows.
MaxTotal == 2600

\* ---------------------------------------------------------- program constants

MinFftSize == 256
BypassFactor == 10
NearCarrierHz == 3000
GainOne == 1000000000

Threads == {"t1", "t2", "t3"}

Protocols == {"WFM", "NBFM", "AM", "USB", "LSB"}

PROTOCOL_DEFAULTS ==
  [p \in Protocols |->
     CASE p = "WFM"  -> [passband_width |-> 200000, stopband_atten |-> 60,
                         carrier_offset |-> 0, sharp_cutoff |-> FALSE]
       [] p = "NBFM" -> [passband_width |-> 12500, stopband_atten |-> 50,
                         carrier_offset |-> 0, sharp_cutoff |-> FALSE]
       [] p = "AM"   -> [passband_width |-> 8000, stopband_atten |-> 40,
                         carrier_offset |-> 0, sharp_cutoff |-> FALSE]
       [] p = "USB"  -> [passband_width |-> 3000, stopband_atten |-> 70,
                         carrier_offset |-> 1500, sharp_cutoff |-> TRUE]
       [] p = "LSB"  -> [passband_width |-> 3000, stopband_atten |-> 70,
                         carrier_offset |-> 0 - 1500, sharp_cutoff |-> TRUE]]

\* passband_width / 2.0f
HalfBandwidth(p) == PROTOCOL_DEFAULTS[p].passband_width \div 2

IsSSB(p) == p = "USB" \/ p = "LSB"

\* config_ as the constructor leaves it.
DefaultConfig ==
  [protocol |-> "WFM", shape |-> "BLACKMAN", stopband_attenuation |-> 75,
   center_frequency |-> 0, bandwidth |-> 200000, sample_rate |-> 2048000,
   ssb_carrier_offset |-> 0, ssb_sharp_cutoff |-> FALSE]

\* current_stats_ = {}
ZeroStats ==
  [is_enabled |-> FALSE, samples_processed |-> 0, passband_width_hz |-> 0,
   stopband_attenuation_db |-> 0, current_center_freq |-> 0,
   ssb_carrier_offset_hz |-> 0, ssb_mode_active |-> FALSE]

Min(a, b) == IF a < b THEN a ELSE b
Max(a, b) == IF a > b THEN a ELSE b
Abs(a) == IF a < 0 THEN 0 - a ELSE a

\* ------------------------------------------------------------------ kernel

\* std::pow(10.0f, -stopband_attenuation / 20.0f), in units of 10^-9.
MinResponse(att) ==
  CASE att = 0  -> GainOne
    [] att = 20 -> 100000000
    [] att = 40 -> 10000000
    [] att = 50 -> 3162278
    [] att = 60 -> 1000000
    [] att = 70 -> 316228
    [] att = 75 -> 177828
    [] OTHER    -> 0

\* Bin to frequency (safelyUpdateKernel and applySSBShaping use the same map).
BinFreq(i, n, res) == IF i <= n \div 2 THEN i * res ELSE (i - n) * res

\* t in thousandths for a ramp position num/den with 0 <= num <= den.
Frac(num, den) == (num * 1000) \div den

\* t*t*(3 - 2t) for t in thousandths, result in units of 10^-9.
SmoothStep(t) == ((((t * t) \div 1000) * (3000 - 2 * t)) \div 1000) * 1000000

\* BaseResponse of a non-SSB protocol with a transition of one bin width
\* for the two of the source.
BaseResponse_narrow(d, i) ==
  LET freq == BinFreq(i, d.n, d.res)
      tr == d.res
      raw == IF freq >= d.low /\ freq <= d.high THEN GainOne
             ELSE IF freq >= d.low - tr /\ freq < d.low
             THEN Frac(freq - (d.low - tr), tr) * 1000000
             ELSE IF freq > d.high /\ freq <= d.high + tr
             THEN Frac((d.high + tr) - freq, tr) * 1000000
             ELSE 0
  IN  Max(raw, MinResponse(d.atten))

\* The response safelyUpdateKernel stores in bin i.  d holds what the pass
\* read: n, res, low, high (the cutoffs, centre and carrier offset added),
\* protocol, sharp, center, atten.
BaseResponse(d, i) ==
  LET freq == BinFreq(i, d.n, d.res)
      inband == freq >= d.low /\ freq <= d.high
      raw ==
        IF IsSSB(d.protocol)
        THEN IF d.sharp
             THEN LET tr == d.res
                      shaped ==
                        IF inband THEN GainOne
                        ELSE IF freq >= d.low - tr /\ freq < d.low
                        THEN SmoothStep(Frac(freq - (d.low - tr), tr))
                        ELSE IF freq > d.high /\ freq <= d.high + tr
                        THEN SmoothStep(Frac((d.high + tr) - freq, tr))
                        ELSE 0
                  IN  IF d.protocol = "USB" /\ freq < d.center
                      THEN shaped \div 100
                      ELSE IF d.protocol = "LSB" /\ freq > d.center
                      THEN shaped \div 100
                      ELSE shaped
             ELSE IF inband THEN GainOne ELSE 0
        ELSE IF inband THEN GainOne
             ELSE LET tr == d.res * 2
                  IN  IF freq >= d.low - tr /\ freq < d.low
                      THEN Frac(freq - (d.low - tr), tr) * 1000000
                      ELSE IF freq > d.high /\ freq <= d.high + tr
                      THEN Frac((d.high + tr) - freq, tr) * 1000000
                      ELSE 0
  IN  Max(raw, MinResponse(d.atten))

\* suppression_factor of applySSBShaping for bin i, in thousandths.  s holds
\* n, res, protocol, center as the pass read them.
SuppressionFactor(s, i) ==
  LET freq == BinFreq(i, s.n, s.res)
      distance == Abs(freq - s.center)
  IN  IF s.protocol = "USB" /\ freq < s.center
      THEN (IF distance < NearCarrierHz THEN 1 ELSE 100)
      ELSE IF s.protocol = "LSB" /\ freq > s.center
      THEN (IF distance < NearCarrierHz THEN 1 ELSE 100)
      ELSE 1000

\* filter_kernel_: its length and the passes that wrote it, oldest first.
\* A layer [kind, upto, p] wrote bins 0 .. upto-1; bins no layer wrote hold
\* the 1.0f that resize() fills in.
EmptyKernel == [size |-> 0, layers |-> << >>]

\* filter_kernel_.resize(n, 1.0f)
KernelResize(k, n) ==
  [size |-> n,
   layers |-> [j \in 1..Len(k.layers) |->
                 [k.layers[j] EXCEPT !.upto = Min(k.layers[j].upto, n)]]]

\* The loop of safelyUpdateKernel overwrites every bin.
KernelDesigned(k, d) ==
  [size |-> k.size, layers |-> << [kind |-> "base", upto |-> d.n, p |-> d] >>]

\* The loop of applySSBShaping scales every bin.
KernelShaped(k, s) ==
  [size |-> k.size,
   layers |-> Append(k.layers, [kind |-> "shape", upto |-> s.n, p |-> s])]

RECURSIVE GainThrough(_, _, _)
GainThrough(layers, j, i) ==
  IF j = 0 THEN GainOne
  ELSE LET l == layers[j]
           below == GainThrough(layers, j - 1, i)
       IN  IF i >= l.upto THEN below
           ELSE IF l.kind = "base" THEN BaseResponse(l.p, i)
           ELSE (below \div 1000) * SuppressionFactor(l.p, i)

\* std::abs(filter_kernel_[i]) for 0 <= i < size, in units of 10^-9.
KernelGain(k, i) == GainThrough(k.layers, Len(k.layers), i)

\* ------------------------------------------------------------------- state

VARIABLES
  atom,             \* the std::atomic members
  res,              \* forward_plan_, inverse_plan_, fft_input_, fft_output_
  mtx,              \* owner of each std::mutex, or "free"
  config_,
  filter_kernel_,
  current_stats_,
  energy_history_,  \* energy_history_.size()
  pc,               \* where each calling thread is
  loc,              \* each thread's call: method, arguments, locals
  ret               \* what each thread's last completed call returned

vars == << atom, res, mtx, config_, filter_kernel_, current_stats_,
           energy_history_, pc, loc, ret >>

\* The object's own state (everything but the callers' positions).
object == << atom, res, mtx, config_, filter_kernel_, current_stats_,
             energy_history_ >>

NoArg == [a |-> 0, b |-> 0, p |-> "WFM", f |-> FALSE, c |-> DefaultConfig]

NoRet == [op |-> "none", ok |-> FALSE, num |-> 0, out |-> << >>,
          cfg |-> DefaultConfig, stats |-> ZeroStats]

\* A thread's locals at the start of a call of method op.
Locals(op, arg) ==
  [op |-> op, arg |-> arg, current_fft_size |-> 0, pos |-> 0, out |-> << >>,
   blk |-> EmptyKernel, filtered |-> FALSE, s_n |-> 0, s_res |-> 0,
   after_design |-> "none", after_kernel |-> "none", after_cleanup |-> "none"]

NoResources == [forward_plan_ |-> FALSE, inverse_plan_ |-> FALSE,
                fft_input_ |-> FALSE, fft_output_ |-> FALSE]

AllResources == [forward_plan_ |-> TRUE, inverse_plan_ |-> TRUE,
                 fft_input_ |-> TRUE, fft_output_ |-> TRUE]

\* The constructor.
Init ==
  /\ atom = [initialized_ |-> FALSE, enabled_ |-> FALSE,
             parameters_changed_ |-> TRUE, processing_active_ |-> FALSE,
             fft_size_ |-> 0, frequency_resolution_ |-> 0,
             passband_low_hz_ |-> 0, passband_high_hz_ |-> 0,
             current_center_freq_ |-> 0, ssb_carrier_offset_ |-> 0,
             ssb_sharp_cutoff_ |-> FALSE, total_samples_processed_ |-> 0]
  /\ res = NoResources
  /\ mtx = [state_mutex_ |-> "free", config_mutex_ |-> "free",
            fft_mutex_ |-> "free", filter_mutex_ |-> "free",
            stats_mutex_ |-> "free"]
  /\ config_ = DefaultConfig
  /\ filter_kernel_ = EmptyKernel
  /\ current_stats_ = ZeroStats
  /\ energy_history_ = 32
  /\ pc = [t \in Threads |-> "idle"]
  /\ loc = [t \in Threads |-> Locals("none", NoArg)]
  /\ ret = [t \in Threads |-> NoRet]

\* ----------------------------------------------------------------- helpers

isValidForProcessing ==
  /\ atom.initialized_
  /\ atom.enabled_
  /\ atom.fft_size_ > 0
  /\ atom.frequency_resolution_ > 0

\* The object is gone once a thread has run the destructor.
Destroyed == \E t \in Threads : pc[t] = "destroyed"

\* Thread t starts a call of method op: it is idle and the object exists.
CanCall(t) == pc[t] = "idle" /\ ~Destroyed

Goto(t, label) == pc' = [pc EXCEPT ![t] = label]

\* Thread t's call returns r; its locals die.
Return(t, r) ==
  /\ pc' = [pc EXCEPT ![t] = "idle"]
  /\ loc' = [loc EXCEPT ![t] = Locals(loc[t].op, loc[t].arg)]
  /\ ret' = [ret EXCEPT ![t] = r]

\* As Return, for a call that returns in the step that starts it.
ReturnAtOnce(t, op, arg, r) ==
  /\ pc' = [pc EXCEPT ![t] = "idle"]
  /\ loc' = [loc EXCEPT ![t] = Locals(op, arg)]
  /\ ret' = [ret EXCEPT ![t] = r]

\* process returns its argument (bypass) / the vector it built.
InputReturned(len) ==
  [NoRet EXCEPT !.op = "process", !.ok = FALSE, !.num = len]
OutputReturned(out, len) ==
  [NoRet EXCEPT !.op = "process", !.ok = TRUE, !.num = len, !.out = out]

\* ----------------------------------------------------------------- process

\* process(input), input.size() = len: the entry test.
process_entry(t, len) ==
  /\ CanCall(t)
  /\ atom.total_samples_processed_ + len <= MaxTotal
  /\ LET arg == [NoArg EXCEPT !.a = len]
     IN  IF ~isValidForProcessing \/ len = 0
         THEN ReturnAtOnce(t, "process", arg, InputReturned(len))
         ELSE /\ Goto(t, "p_active")
              /\ loc' = [loc EXCEPT ![t] = Locals("process", arg)]
              /\ ret' = ret
  /\ UNCHANGED object

\* processing_active_.store(true); the guard object is built.
process_set_active(t) ==
  /\ pc[t] = "p_active"
  /\ atom' = [atom EXCEPT !.processing_active_ = TRUE]
  /\ Goto(t, "p_size")
  /\ UNCHANGED << res, mtx, config_, filter_kernel_, current_stats_,
                  energy_history_, loc, ret >>

\* process_size_check with >= for > in the size test.
process_size_check_ge(t) ==
  /\ pc[t] = "p_size"
  /\ IF loc[t].arg.a >= atom.fft_size_ * BypassFactor
     THEN /\ atom' = [atom EXCEPT !.processing_active_ = FALSE]
          /\ Return(t, InputReturned(loc[t].arg.a))
     ELSE /\ Goto(t, "p_dirty")
          /\ loc' = [loc EXCEPT ![t].current_fft_size = atom.fft_size_]
          /\ UNCHANGED << atom, ret >>
  /\ UNCHANGED << res, mtx, config_, filter_kernel_, current_stats_,
                  energy_history_ >>

\* The large-input bypass; the guard's destructor clears the flag.
process_size_check(t) ==
  /\ pc[t] = "p_size"
  /\ IF loc[t].arg.a > atom.fft_size_ * BypassFactor
     THEN /\ atom' = [atom EXCEPT !.processing_active_ = FALSE]
          /\ Return(t, InputReturned(loc[t].arg.a))
     ELSE /\ Goto(t, "p_dirty")
          /\ loc' = [loc EXCEPT ![t].current_fft_size = atom.fft_size_]
          /\ UNCHANGED << atom, ret >>
  /\ UNCHANGED << res, mtx, config_, filter_kernel_, current_stats_,
                  energy_history_ >>

\* process_dirty_check without the call of updateFilterParameters.
process_dirty_check_skip(t) ==
  /\ pc[t] = "p_dirty"
  /\ Goto(t, "p_loop")
  /\ UNCHANGED << object, loc, ret >>

\* if (parameters_changed_.load()) updateFilterParameters();
process_dirty_check(t) ==
  /\ pc[t] = "p_dirty"
  /\ Goto(t, IF atom.parameters_changed_ THEN "u_entry" ELSE "p_loop")
  /\ UNCHANGED << object, loc, ret >>

\* The loop condition.
process_loop(t) ==
  /\ pc[t] = "p_loop"
  /\ Goto(t, IF loc[t].pos < loc[t].arg.a /\ isValidForProcessing
             THEN "p_block" ELSE "p_stats")
  /\ UNCHANGED << object, loc, ret >>

\* BlockSize without the std::min against what is left of the input.
BlockSize_full(l) == l.current_fft_size

\* block_size of the block at pos.
BlockSize(l) == Min(l.current_fft_size, l.arg.a - l.pos)

ResourcesPresent ==
  res.fft_input_ /\ res.fft_output_ /\ res.forward_plan_ /\ res.inverse_plan_

\* fft_mutex_ is taken and the four pointers are tested; if all are there
\* the block is copied in and the forward transform runs.
process_block_lock(t) ==
  /\ pc[t] = "p_block"
  /\ mtx.fft_mutex_ = "free"
  /\ IF ResourcesPresent
     THEN /\ mtx' = [mtx EXCEPT !.fft_mutex_ = t]
          /\ Goto(t, "p_mul")
     ELSE /\ mtx' = mtx
          /\ Goto(t, "p_stats")
  /\ UNCHANGED << atom, res, config_, filter_kernel_, current_stats_,
                  energy_history_, loc, ret >>

\* Under filter_mutex_: the spectrum is multiplied by the kernel if the
\* kernel has the block length.
process_multiply(t) ==
  /\ pc[t] = "p_mul"
  /\ mtx.filter_mutex_ = "free"
  /\ LET hit == filter_kernel_.size = loc[t].current_fft_size
     IN  loc' = [loc EXCEPT ![t].filtered = hit,
                            ![t].blk = IF hit THEN filter_kernel_
                                       ELSE EmptyKernel]
  /\ Goto(t, "p_inv")
  /\ UNCHANGED << object, ret >>

\* The inverse transform, the copy out, fft_mutex_ released, pos advanced.
process_inverse(t) ==
  /\ pc[t] = "p_inv"
  /\ mtx' = [mtx EXCEPT !.fft_mutex_ = "free"]
  /\ loc' = [loc EXCEPT
               ![t].out = Append(@, [pos |-> loc[t].pos,
                                     len |-> BlockSize(loc[t]),
                                     filtered |-> loc[t].filtered,
                                     kernel |-> loc[t].blk]),
               ![t].pos = @ + BlockSize(loc[t]),
               ![t].blk = EmptyKernel,
               ![t].filtered = FALSE]
  /\ Goto(t, "p_loop")
  /\ UNCHANGED << atom, res, config_, filter_kernel_, current_stats_,
                  energy_history_, ret >>

\* Under stats_mutex_: the counters.
process_stats(t) ==
  /\ pc[t] = "p_stats"
  /\ mtx.stats_mutex_ = "free"
  /\ current_stats_' = [current_stats_ EXCEPT
                          !.samples_processed = loc[t].arg.a]
  /\ atom' = [atom EXCEPT !.total_samples_processed_ = @ + loc[t].arg.a]
  /\ Goto(t, "p_ret")
  /\ UNCHANGED << res, mtx, config_, filter_kernel_, energy_history_,
                  loc, ret >>

\* Number of samples in the blocks of out.
RECURSIVE OutputLength(_)
OutputLength(out) ==
  IF out = << >> THEN 0 ELSE out[1].len + OutputLength(Tail(out))

\* return output; the guard's destructor clears processing_active_.
process_return(t) ==
  /\ pc[t] = "p_ret"
  /\ atom' = [atom EXCEPT !.processing_active_ = FALSE]
  /\ Return(t, OutputReturned(loc[t].out, OutputLength(loc[t].out)))
  /\ UNCHANGED << res, mtx, config_, filter_kernel_, current_stats_,
                  energy_history_ >>

\* ------------------------------------------------- updateFilterParameters

updateFilterParameters_entry(t) ==
  /\ pc[t] = "u_entry"
  /\ Goto(t, IF ~isValidForProcessing \/ ~atom.parameters_changed_
             THEN "p_loop" ELSE "u_config")
  /\ UNCHANGED << object, loc, ret >>

\* The block under config_mutex_: SSB scalars re-read from config_, or a
\* symmetric passband replaced by the protocol's default.
updateFilterParameters_config(t) ==
  /\ pc[t] = "u_config"
  /\ mtx.config_mutex_ = "free"
  /\ atom' =
       IF IsSSB(config_.protocol)
       THEN [atom EXCEPT !.ssb_carrier_offset_ = config_.ssb_carrier_offset,
                         !.ssb_sharp_cutoff_ = config_.ssb_sharp_cutoff]
       ELSE IF Abs(atom.passband_low_hz_ + atom.passband_high_hz_) < 1
       THEN [atom EXCEPT
               !.passband_low_hz_ = 0 - HalfBandwidth(config_.protocol),
               !.passband_high_hz_ = HalfBandwidth(config_.protocol)]
       ELSE atom
  /\ Goto(t, "d_entry")
  /\ loc' = [loc EXCEPT ![t].after_design = "u_clear"]
  /\ UNCHANGED << res, mtx, config_, filter_kernel_, current_stats_,
                  energy_history_, ret >>

\* parameters_changed_.store(false)
updateFilterParameters_clear(t) ==
  /\ pc[t] = "u_clear"
  /\ atom' = [atom EXCEPT !.parameters_changed_ = FALSE]
  /\ Goto(t, "p_loop")
  /\ UNCHANGED << res, mtx, config_, filter_kernel_, current_stats_,
                  energy_history_, loc, ret >>

\* ------------------------------------------------------------ designFilter

\* The entry test, then current_protocol is read under config_mutex_ and
\* picks the design routine.
designFilter_entry(t) ==
  /\ pc[t] = "d_entry"
  /\ IF ~isValidForProcessing
     THEN /\ Goto(t, loc[t].after_design)
          /\ loc' = loc
     ELSE /\ mtx.config_mutex_ = "free"
          /\ IF IsSSB(config_.protocol)
             THEN /\ Goto(t, "s_entry")
                  /\ loc' = loc
             ELSE /\ Goto(t, "k_entry")
                  /\ loc' = [loc EXCEPT ![t].after_kernel = "d_stats"]
  /\ UNCHANGED << object, ret >>

designSSBFilter_entry(t) ==
  /\ pc[t] = "s_entry"
  /\ IF ~isValidForProcessing
     THEN /\ Goto(t, "d_stats")
          /\ loc' = loc
     ELSE /\ Goto(t, "k_entry")
          /\ loc' = [loc EXCEPT ![t].after_kernel = "a_lock"]
  /\ UNCHANGED << object, ret >>

\* The entry test; filter_mutex_ is taken.
safelyUpdateKernel_entry(t) ==
  /\ pc[t] = "k_entry"
  /\ IF ~isValidForProcessing
     THEN /\ Goto(t, loc[t].after_kernel)
          /\ mtx' = mtx
     ELSE /\ mtx.filter_mutex_ = "free"
          /\ mtx' = [mtx EXCEPT !.filter_mutex_ = t]
          /\ Goto(t, "k_body")
  /\ UNCHANGED << atom, res, config_, filter_kernel_, current_stats_,
                  energy_history_, loc, ret >>

\* What one pass of safelyUpdateKernel reads: the scalars, then config_
\* under config_mutex_.
DesignRead ==
  LET shift == IF IsSSB(config_.protocol) THEN atom.ssb_carrier_offset_
               ELSE 0
  IN  [n |-> atom.fft_size_,
       res |-> atom.frequency_resolution_,
       low |-> atom.passband_low_hz_ + atom.current_center_freq_ + shift,
       high |-> atom.passband_high_hz_ + atom.current_center_freq_ + shift,
       protocol |-> config_.protocol,
       sharp |-> atom.ssb_sharp_cutoff_,
       center |-> atom.current_center_freq_,
       atten |-> config_.stopband_attenuation]

\* The kernel safelyUpdateKernel leaves: resized if need be, every bin
\* rewritten.
DesignedKernel(k, d) ==
  KernelDesigned(IF k.size # d.n THEN KernelResize(k, d.n) ELSE k, d)

\* With filter_mutex_ held: config_mutex_ is taken for the copy of config_,
\* the kernel is rewritten, filter_mutex_ is released.
safelyUpdateKernel_body(t) ==
  /\ pc[t] = "k_body"
  /\ mtx.config_mutex_ = "free"
  /\ filter_kernel_' = DesignedKernel(filter_kernel_, DesignRead)
  /\ mtx' = [mtx EXCEPT !.filter_mutex_ = "free"]
  /\ Goto(t, loc[t].after_kernel)
  /\ UNCHANGED << atom, res, config_, current_stats_, energy_history_,
                  loc, ret >>

\* designSSBFilter loads fft_size_ and frequency_resolution_ and calls
\* applySSBShaping, which takes filter_mutex_.
applySSBShaping_lock(t) ==
  /\ pc[t] = "a_lock"
  /\ mtx.filter_mutex_ = "free"
  /\ mtx' = [mtx EXCEPT !.filter_mutex_ = t]
  /\ loc' = [loc EXCEPT ![t].s_n = atom.fft_size_,
                        ![t].s_res = atom.frequency_resolution_]
  /\ Goto(t, "a_body")
  /\ UNCHANGED << atom, res, config_, filter_kernel_, current_stats_,
                  energy_history_, ret >>

\* What the shaping pass of thread t reads.
ShapeRead(t) ==
  [n |-> loc[t].s_n, res |-> loc[t].s_res,
   protocol |-> config_.protocol, center |-> atom.current_center_freq_]

\* With filter_mutex_ held: the size test, current_protocol read under
\* config_mutex_, every bin scaled, filter_mutex_ released.
applySSBShaping_body(t) ==
  /\ pc[t] = "a_body"
  /\ IF filter_kernel_.size # loc[t].s_n
     THEN filter_kernel_' = filter_kernel_
     ELSE /\ mtx.config_mutex_ = "free"
          /\ filter_kernel_' =
               IF IsSSB(config_.protocol)
               THEN KernelShaped(filter_kernel_, ShapeRead(t))
               ELSE filter_kernel_
  /\ mtx' = [mtx EXCEPT !.filter_mutex_ = "free"]
  /\ loc' = [loc EXCEPT ![t].s_n = 0, ![t].s_res = 0]
  /\ Goto(t, "d_stats")
  /\ UNCHANGED << atom, res, config_, current_stats_, energy_history_, ret >>

\* designFilter takes stats_mutex_ ...
designFilter_stats_lock(t) ==
  /\ pc[t] = "d_stats"
  /\ mtx.stats_mutex_ = "free"
  /\ mtx' = [mtx EXCEPT !.stats_mutex_ = t]
  /\ Goto(t, "d_stats_body")
  /\ UNCHANGED << atom, res, config_, filter_kernel_, current_stats_,
                  energy_history_, loc, ret >>

\* ... and, holding it, config_mutex_; the snapshot is refreshed and both
\* are released.
designFilter_stats(t) ==
  /\ pc[t] = "d_stats_body"
  /\ mtx.config_mutex_ = "free"
  /\ current_stats_' =
       [current_stats_ EXCEPT
          !.passband_width_hz = atom.passband_high_hz_ - atom.passband_low_hz_,
          !.current_center_freq = atom.current_center_freq_,
          !.ssb_carrier_offset_hz = atom.ssb_carrier_offset_,
          !.stopband_attenuation_db = config_.stopband_attenuation,
          !.ssb_mode_active = IsSSB(config_.protocol)]
  /\ mtx' = [mtx EXCEPT !.stats_mutex_ = "free"]
  /\ Goto(t, loc[t].after_design)
  /\ UNCHANGED << atom, res, config_, filter_kernel_, energy_history_,
                  loc, ret >>

\* ----------------------------------------------------------------- cleanup

\* cleanup_free without fftwf_free(fft_input_).
cleanup_free_leak(t) ==
  /\ pc[t] = "c_free"
  /\ res' = [NoResources EXCEPT !.fft_input_ = res.fft_input_]
  /\ Goto(t, "c_kernel")
  /\ UNCHANGED << atom, mtx, config_, filter_kernel_, current_stats_,
                  energy_history_, loc, ret >>

\* The plans are destroyed and the buffers freed; no lock is held for it.
cleanup_free(t) ==
  /\ pc[t] = "c_free"
  /\ res' = NoResources
  /\ Goto(t, "c_kernel")
  /\ UNCHANGED << atom, mtx, config_, filter_kernel_, current_stats_,
                  energy_history_, loc, ret >>

\* Under filter_mutex_: filter_kernel_.clear()
cleanup_kernel(t) ==
  /\ pc[t] = "c_kernel"
  /\ mtx.filter_mutex_ = "free"
  /\ filter_kernel_' = EmptyKernel
  /\ Goto(t, "c_done")
  /\ UNCHANGED << atom, res, mtx, config_, current_stats_, energy_history_,
                  loc, ret >>

\* energy_history_.clear(); initialized_.store(false)
cleanup_done(t) ==
  /\ pc[t] = "c_done"
  /\ energy_history_' = 0
  /\ atom' = [atom EXCEPT !.initialized_ = FALSE]
  /\ Goto(t, loc[t].after_cleanup)
  /\ UNCHANGED << res, mtx, config_, filter_kernel_, current_stats_,
                  loc, ret >>

\* -------------------------------------------------------------- initialize

\* n & m for n, m >= 0
RECURSIVE BitAnd(_, _)
BitAnd(n, m) ==
  IF n = 0 \/ m = 0 THEN 0
  ELSE (n % 2) * (m % 2) + 2 * BitAnd(n \div 2, m \div 2)

\* BadInitArgs without the power-of-two test.
BadInitArgs_no_bit_test(sample_rate, fft_size) ==
  \/ sample_rate <= 0
  \/ fft_size < MinFftSize

\* The argument test of initialize; rejected arguments are <= 0 or < 256
\* before the bit test is reached.
BadInitArgs(sample_rate, fft_size) ==
  \/ sample_rate <= 0
  \/ fft_size < MinFftSize
  \/ BitAnd(fft_size, fft_size - 1) # 0

BoolRet(op, b) == [NoRet EXCEPT !.op = op, !.ok = b]

initialize_entry(t, sample_rate, fft_size) ==
  /\ CanCall(t)
  /\ LET arg == [NoArg EXCEPT !.a = sample_rate, !.b = fft_size]
     IN  IF BadInitArgs(sample_rate, fft_size)
         THEN ReturnAtOnce(t, "initialize", arg, BoolRet("initialize", FALSE))
         ELSE /\ Goto(t, "i_wait")
              /\ loc' = [loc EXCEPT ![t] = Locals("initialize", arg)]
              /\ ret' = ret
  /\ UNCHANGED object

\* while (processing_active_.load()) sleep; then cleanup()
initialize_wait(t) ==
  /\ pc[t] = "i_wait"
  /\ ~atom.processing_active_
  /\ Goto(t, "c_free")
  /\ loc' = [loc EXCEPT ![t].after_cleanup = "i_lock_state"]
  /\ UNCHANGED << object, ret >>

initialize_lock_state(t) ==
  /\ pc[t] = "i_lock_state"
  /\ mtx.state_mutex_ = "free"
  /\ mtx' = [mtx EXCEPT !.state_mutex_ = t]
  /\ Goto(t, "i_lock_config")
  /\ UNCHANGED << atom, res, config_, filter_kernel_, current_stats_,
                  energy_history_, loc, ret >>

initialize_lock_config(t) ==
  /\ pc[t] = "i_lock_config"
  /\ mtx.config_mutex_ = "free"
  /\ mtx' = [mtx EXCEPT !.config_mutex_ = t]
  /\ Goto(t, "i_lock_fft")
  /\ UNCHANGED << atom, res, config_, filter_kernel_, current_stats_,
                  energy_history_, loc, ret >>

\* fft_mutex_ is taken; sample rate, fft_size_, frequency_resolution_ stored.
initialize_lock_fft(t) ==
  /\ pc[t] = "i_lock_fft"
  /\ mtx.fft_mutex_ = "free"
  /\ mtx' = [mtx EXCEPT !.fft_mutex_ = t]
  /\ config_' = [config_ EXCEPT !.sample_rate = loc[t].arg.a]
  /\ atom' = [atom EXCEPT
                !.fft_size_ = loc[t].arg.b,
                !.frequency_resolution_ = loc[t].arg.a \div loc[t].arg.b]
  /\ Goto(t, "i_alloc")
  /\ UNCHANGED << res, filter_kernel_, current_stats_, energy_history_,
                  loc, ret >>

\* What fftwf_malloc and fftwf_plan_dft_1d can leave behind: the plans are
\* made only when both buffers were.
AllocOutcomes ==
  { r \in [forward_plan_ : BOOLEAN, inverse_plan_ : BOOLEAN,
           fft_input_ : BOOLEAN, fft_output_ : BOOLEAN] :
      (r.forward_plan_ \/ r.inverse_plan_) =>
        (r.fft_input_ /\ r.fft_output_) }

\* The buffers and plans; a null one throws, and the handler runs cleanup().
initialize_alloc(t, outcome) ==
  /\ pc[t] = "i_alloc"
  /\ outcome \in AllocOutcomes
  /\ res' = outcome
  /\ IF outcome = AllResources
     THEN /\ Goto(t, "i_kernel")
          /\ loc' = loc
     ELSE /\ Goto(t, "c_free")
          /\ loc' = [loc EXCEPT ![t].after_cleanup = "i_fail"]
  /\ UNCHANGED << atom, mtx, config_, filter_kernel_, current_stats_,
                  energy_history_, ret >>

\* Under filter_mutex_: filter_kernel_.resize(fft_size, 1.0f)
initialize_kernel(t) ==
  /\ pc[t] = "i_kernel"
  /\ mtx.filter_mutex_ = "free"
  /\ filter_kernel_' = KernelResize(filter_kernel_, loc[t].arg.b)
  /\ Goto(t, "i_passband")
  /\ UNCHANGED << atom, res, mtx, config_, current_stats_, energy_history_,
                  loc, ret >>

\* The protocol's defaults go to the scalars; designFilter() is called.
initialize_passband(t) ==
  /\ pc[t] = "i_passband"
  /\ atom' = [atom EXCEPT
                !.passband_low_hz_ = 0 - HalfBandwidth(config_.protocol),
                !.passband_high_hz_ = HalfBandwidth(config_.protocol),
                !.current_center_freq_ = config_.center_frequency,
                !.ssb_carrier_offset_ =
                   PROTOCOL_DEFAULTS[config_.protocol].carrier_offset,
                !.ssb_sharp_cutoff_ =
                   PROTOCOL_DEFAULTS[config_.protocol].sharp_cutoff]
  /\ Goto(t, "d_entry")
  /\ loc' = [loc EXCEPT ![t].after_design = "i_stats"]
  /\ UNCHANGED << res, mtx, config_, filter_kernel_, current_stats_,
                  energy_history_, ret >>

\* Under stats_mutex_: current_stats_ = {} and the three fields.
initialize_stats(t) ==
  /\ pc[t] = "i_stats"
  /\ mtx.stats_mutex_ = "free"
  /\ current_stats_' =
       [ZeroStats EXCEPT
          !.is_enabled = atom.enabled_,
          !.ssb_mode_active = IsSSB(config_.protocol),
          !.ssb_carrier_offset_hz =
             PROTOCOL_DEFAULTS[config_.protocol].carrier_offset]
  /\ Goto(t, "i_publish")
  /\ UNCHANGED << atom, res, mtx, config_, filter_kernel_, energy_history_,
                  loc, ret >>

\* initialized_.store(true)
initialize_publish(t) ==
  /\ pc[t] = "i_publish"
  /\ atom' = [atom EXCEPT !.initialized_ = TRUE]
  /\ Goto(t, "i_return")
  /\ UNCHANGED << res, mtx, config_, filter_kernel_, current_stats_,
                  energy_history_, loc, ret >>

\* The three lock_guards of initialize go out of scope.
Unlocked3 == [mtx EXCEPT !.state_mutex_ = "free", !.config_mutex_ = "free",
                         !.fft_mutex_ = "free"]

\* parameters_changed_.store(false); return true
initialize_return(t) ==
  /\ pc[t] = "i_return"
  /\ atom' = [atom EXCEPT !.parameters_changed_ = FALSE]
  /\ mtx' = Unlocked3
  /\ Return(t, BoolRet("initialize", TRUE))
  /\ UNCHANGED << res, config_, filter_kernel_, current_stats_,
                  energy_history_ >>

\* The handler's return false.
initialize_fail(t) ==
  /\ pc[t] = "i_fail"
  /\ mtx' = Unlocked3
  /\ Return(t, BoolRet("initialize", FALSE))
  /\ UNCHANGED << atom, res, config_, filter_kernel_, current_stats_,
                  energy_history_ >>

\* -------------------------------------------------------------- destructor

destructor_entry(t) ==
  /\ CanCall(t)
  /\ Goto(t, "x_wait")
  /\ loc' = [loc EXCEPT ![t] = Locals("destructor", NoArg)]
  /\ UNCHANGED << object, ret >>

\* while (processing_active_.load()) sleep; then cleanup()
destructor_wait(t) ==
  /\ pc[t] = "x_wait"
  /\ ~atom.processing_active_
  /\ Goto(t, "c_free")
  /\ loc' = [loc EXCEPT ![t].after_cleanup = "destroyed"]
  /\ UNCHANGED << object, ret >>

\* ---------------------------------------------------------------- mutators

VoidRet(op) == [NoRet EXCEPT !.op = op, !.ok = TRUE]

configure_entry(t, c) ==
  /\ CanCall(t)
  /\ LET arg == [NoArg EXCEPT !.c = c]
     IN  IF ~atom.initialized_
         THEN ReturnAtOnce(t, "configure", arg, VoidRet("configure"))
         ELSE /\ Goto(t, "cfg_body")
              /\ loc' = [loc EXCEPT ![t] = Locals("configure", arg)]
              /\ ret' = ret
  /\ UNCHANGED object

\* Under config_mutex_: config_ replaced, the SSB scalars and the dirty flag
\* stored.
\* configure_body without the stores to the two SSB scalars.
configure_body_no_mirror(t) ==
  /\ pc[t] = "cfg_body"
  /\ mtx.config_mutex_ = "free"
  /\ config_' = loc[t].arg.c
  /\ atom' = [atom EXCEPT !.parameters_changed_ = TRUE]
  /\ Return(t, VoidRet("configure"))
  /\ UNCHANGED << res, mtx, filter_kernel_, current_stats_, energy_history_ >>

configure_body(t) ==
  /\ pc[t] = "cfg_body"
  /\ mtx.config_mutex_ = "free"
  /\ config_' = loc[t].arg.c
  /\ atom' = [atom EXCEPT
                !.ssb_carrier_offset_ = loc[t].arg.c.ssb_carrier_offset,
                !.ssb_sharp_cutoff_ = loc[t].arg.c.ssb_sharp_cutoff,
                !.parameters_changed_ = TRUE]
  /\ Return(t, VoidRet("configure"))
  /\ UNCHANGED << res, mtx, filter_kernel_, current_stats_, energy_history_ >>

\* enabled_.store(enabled)
setEnabled_entry(t, enabled) ==
  /\ CanCall(t)
  /\ atom' = [atom EXCEPT !.enabled_ = enabled]
  /\ Goto(t, "en_stats")
  /\ loc' = [loc EXCEPT ![t] = Locals("setEnabled", [NoArg EXCEPT !.f = enabled])]
  /\ UNCHANGED << res, mtx, config_, filter_kernel_, current_stats_,
                  energy_history_, ret >>

\* Under stats_mutex_: current_stats_.is_enabled = enabled
setEnabled_stats(t) ==
  /\ pc[t] = "en_stats"
  /\ mtx.stats_mutex_ = "free"
  /\ current_stats_' = [current_stats_ EXCEPT !.is_enabled = loc[t].arg.f]
  /\ Return(t, VoidRet("setEnabled"))
  /\ UNCHANGED << atom, res, mtx, config_, filter_kernel_, energy_history_ >>

setProtocol_entry(t, protocol) ==
  /\ CanCall(t)
  /\ LET arg == [NoArg EXCEPT !.p = protocol]
     IN  IF ~atom.initialized_
         THEN ReturnAtOnce(t, "setProtocol", arg, VoidRet("setProtocol"))
         ELSE /\ Goto(t, "sp_config")
              /\ loc' = [loc EXCEPT ![t] = Locals("setProtocol", arg)]
              /\ ret' = ret
  /\ UNCHANGED object

\* setProtocol_config without the test for an unchanged protocol.
setProtocol_config_no_test(t) ==
  /\ pc[t] = "sp_config"
  /\ mtx.config_mutex_ = "free"
  /\ LET p == loc[t].arg.p
         defaults == PROTOCOL_DEFAULTS[p]
     IN  /\ mtx' = [mtx EXCEPT !.config_mutex_ = t]
         /\ config_' = [config_ EXCEPT
              !.protocol = p,
              !.bandwidth = defaults.passband_width,
              !.stopband_attenuation = defaults.stopband_atten,
              !.ssb_carrier_offset = defaults.carrier_offset,
              !.ssb_sharp_cutoff = defaults.sharp_cutoff]
         /\ atom' = [atom EXCEPT
              !.passband_low_hz_ = 0 - HalfBandwidth(p),
              !.passband_high_hz_ = HalfBandwidth(p),
              !.ssb_carrier_offset_ = defaults.carrier_offset,
              !.ssb_sharp_cutoff_ = defaults.sharp_cutoff,
              !.parameters_changed_ = TRUE]
         /\ Goto(t, "sp_stats")
         /\ UNCHANGED << loc, ret >>
  /\ UNCHANGED << res, filter_kernel_, current_stats_, energy_history_ >>

\* setProtocol_config without the store to config_.stopband_attenuation.
setProtocol_config_keep_atten(t) ==
  /\ pc[t] = "sp_config"
  /\ mtx.config_mutex_ = "free"
  /\ LET p == loc[t].arg.p
         defaults == PROTOCOL_DEFAULTS[p]
     IN  IF config_.protocol = p
         THEN /\ Return(t, VoidRet("setProtocol"))
              /\ UNCHANGED << atom, mtx, config_ >>
         ELSE /\ mtx' = [mtx EXCEPT !.config_mutex_ = t]
              /\ config_' = [config_ EXCEPT
                   !.protocol = p,
                   !.bandwidth = defaults.passband_width,
                   !.ssb_carrier_offset = defaults.carrier_offset,
                   !.ssb_sharp_cutoff = defaults.sharp_cutoff]
              /\ atom' = [atom EXCEPT
                   !.passband_low_hz_ = 0 - HalfBandwidth(p),
                   !.passband_high_hz_ = HalfBandwidth(p),
                   !.ssb_carrier_offset_ = defaults.carrier_offset,
                   !.ssb_sharp_cutoff_ = defaults.sharp_cutoff,
                   !.parameters_changed_ = TRUE]
              /\ Goto(t, "sp_stats")
              /\ UNCHANGED << loc, ret >>
  /\ UNCHANGED << res, filter_kernel_, current_stats_, energy_history_ >>

\* config_mutex_ is taken; the same protocol returns, another one loads its
\* defaults and sets the dirty flag.
setProtocol_config(t) ==
  /\ pc[t] = "sp_config"
  /\ mtx.config_mutex_ = "free"
  /\ LET p == loc[t].arg.p
         defaults == PROTOCOL_DEFAULTS[p]
     IN  IF config_.protocol = p
         THEN /\ Return(t, VoidRet("setProtocol"))
              /\ UNCHANGED << atom, mtx, config_ >>
         ELSE /\ mtx' = [mtx EXCEPT !.config_mutex_ = t]
              /\ config_' = [config_ EXCEPT
                   !.protocol = p,
                   !.bandwidth = defaults.passband_width,
                   !.stopband_attenuation = defaults.stopband_atten,
                   !.ssb_carrier_offset = defaults.carrier_offset,
                   !.ssb_sharp_cutoff = defaults.sharp_cutoff]
              /\ atom' = [atom EXCEPT
                   !.passband_low_hz_ = 0 - HalfBandwidth(p),
                   !.passband_high_hz_ = HalfBandwidth(p),
                   !.ssb_carrier_offset_ = defaults.carrier_offset,
                   !.ssb_sharp_cutoff_ = defaults.sharp_cutoff,
                   !.parameters_changed_ = TRUE]
              /\ Goto(t, "sp_stats")
              /\ UNCHANGED << loc, ret >>
  /\ UNCHANGED << res, filter_kernel_, current_stats_, energy_history_ >>

\* Holding config_mutex_: stats_mutex_ is taken for the two stats fields.
setProtocol_stats(t) ==
  /\ pc[t] = "sp_stats"
  /\ mtx.stats_mutex_ = "free"
  /\ current_stats_' =
       [current_stats_ EXCEPT
          !.ssb_mode_active = IsSSB(loc[t].arg.p),
          !.ssb_carrier_offset_hz = PROTOCOL_DEFAULTS[loc[t].arg.p].carrier_offset]
  /\ mtx' = [mtx EXCEPT !.config_mutex_ = "free"]
  /\ Return(t, VoidRet("setProtocol"))
  /\ UNCHANGED << atom, res, config_, filter_kernel_, energy_history_ >>

\* setPassband_entry with low_freq > high_freq for low_freq >= high_freq.
setPassband_entry_gt(t, low_freq, high_freq) ==
  /\ CanCall(t)
  /\ LET arg == [NoArg EXCEPT !.a = low_freq, !.b = high_freq]
     IN  IF low_freq > high_freq \/ ~atom.initialized_
         THEN ReturnAtOnce(t, "setPassband", arg, VoidRet("setPassband"))
         ELSE /\ Goto(t, "pb_store")
              /\ loc' = [loc EXCEPT ![t] = Locals("setPassband", arg)]
              /\ ret' = ret
  /\ UNCHANGED object

\* The argument and initialized tests.
setPassband_entry(t, low_freq, high_freq) ==
  /\ CanCall(t)
  /\ LET arg == [NoArg EXCEPT !.a = low_freq, !.b = high_freq]
     IN  IF low_freq >= high_freq \/ ~atom.initialized_
         THEN ReturnAtOnce(t, "setPassband", arg, VoidRet("setPassband"))
         ELSE /\ Goto(t, "pb_store")
              /\ loc' = [loc EXCEPT ![t] = Locals("setPassband", arg)]
              /\ ret' = ret
  /\ UNCHANGED object

\* The two edges and the dirty flag are stored.
setPassband_store(t) ==
  /\ pc[t] = "pb_store"
  /\ atom' = [atom EXCEPT !.passband_low_hz_ = loc[t].arg.a,
                          !.passband_high_hz_ = loc[t].arg.b,
                          !.parameters_changed_ = TRUE]
  /\ Return(t, VoidRet("setPassband"))
  /\ UNCHANGED << res, mtx, config_, filter_kernel_, current_stats_,
                  energy_history_ >>

\* The initialized test and current_center_freq_.store(center_freq).
setCenterFrequency_entry(t, center_freq) ==
  /\ CanCall(t)
  /\ LET arg == [NoArg EXCEPT !.a = center_freq]
     IN  IF ~atom.initialized_
         THEN /\ ReturnAtOnce(t, "setCenterFrequency", arg,
                              VoidRet("setCenterFrequency"))
              /\ atom' = atom
         ELSE /\ atom' = [atom EXCEPT !.current_center_freq_ = center_freq]
              /\ Goto(t, "cf_config")
              /\ loc' = [loc EXCEPT ![t] = Locals("setCenterFrequency", arg)]
              /\ ret' = ret
  /\ UNCHANGED << res, mtx, config_, filter_kernel_, current_stats_,
                  energy_history_ >>

\* Under config_mutex_: config_.center_frequency; then the dirty flag.
setCenterFrequency_config(t) ==
  /\ pc[t] = "cf_config"
  /\ mtx.config_mutex_ = "free"
  /\ config_' = [config_ EXCEPT !.center_frequency = loc[t].arg.a]
  /\ atom' = [atom EXCEPT !.parameters_changed_ = TRUE]
  /\ Return(t, VoidRet("setCenterFrequency"))
  /\ UNCHANGED << res, mtx, filter_kernel_, current_stats_, energy_history_ >>

\* The initialized test and ssb_carrier_offset_.store(offset_hz).
setSSBCarrierOffset_entry(t, offset_hz) ==
  /\ CanCall(t)
  /\ LET arg == [NoArg EXCEPT !.a = offset_hz]
     IN  IF ~atom.initialized_
         THEN /\ ReturnAtOnce(t, "setSSBCarrierOffset", arg,
                              VoidRet("setSSBCarrierOffset"))
              /\ atom' = atom
         ELSE /\ atom' = [atom EXCEPT !.ssb_carrier_offset_ = offset_hz]
              /\ Goto(t, "co_config")
              /\ loc' = [loc EXCEPT ![t] = Locals("setSSBCarrierOffset", arg)]
              /\ ret' = ret
  /\ UNCHANGED << res, mtx, config_, filter_kernel_, current_stats_,
                  energy_history_ >>

\* Under config_mutex_: config_.ssb_carrier_offset; then the dirty flag.
setSSBCarrierOffset_config(t) ==
  /\ pc[t] = "co_config"
  /\ mtx.config_mutex_ = "free"
  /\ config_' = [config_ EXCEPT !.ssb_carrier_offset = loc[t].arg.a]
  /\ atom' = [atom EXCEPT !.parameters_changed_ = TRUE]
  /\ Goto(t, "co_stats")
  /\ UNCHANGED << res, mtx, filter_kernel_, current_stats_, energy_history_,
                  loc, ret >>

\* Under stats_mutex_: current_stats_.ssb_carrier_offset_hz
setSSBCarrierOffset_stats(t) ==
  /\ pc[t] = "co_stats"
  /\ mtx.stats_mutex_ = "free"
  /\ current_stats_' =
       [current_stats_ EXCEPT !.ssb_carrier_offset_hz = loc[t].arg.a]
  /\ Return(t, VoidRet("setSSBCarrierOffset"))
  /\ UNCHANGED << atom, res, mtx, config_, filter_kernel_, energy_history_ >>

\* The initialized test and ssb_sharp_cutoff_.store(enabled).
setSSBSharpCutoff_entry(t, enabled) ==
  /\ CanCall(t)
  /\ LET arg == [NoArg EXCEPT !.f = enabled]
     IN  IF ~atom.initialized_
         THEN /\ ReturnAtOnce(t, "setSSBSharpCutoff", arg,
                              VoidRet("setSSBSharpCutoff"))
              /\ atom' = atom
         ELSE /\ atom' = [atom EXCEPT !.ssb_sharp_cutoff_ = enabled]
              /\ Goto(t, "sc_config")
              /\ loc' = [loc EXCEPT ![t] = Locals("setSSBSharpCutoff", arg)]
              /\ ret' = ret
  /\ UNCHANGED << res, mtx, config_, filter_kernel_, current_stats_,
                  energy_history_ >>

\* Under config_mutex_: config_.ssb_sharp_cutoff; then the dirty flag.
setSSBSharpCutoff_config(t) ==
  /\ pc[t] = "sc_config"
  /\ mtx.config_mutex_ = "free"
  /\ config_' = [config_ EXCEPT !.ssb_sharp_cutoff = loc[t].arg.f]
  /\ atom' = [atom EXCEPT !.parameters_changed_ = TRUE]
  /\ Return(t, VoidRet("setSSBSharpCutoff"))
  /\ UNCHANGED << res, mtx, filter_kernel_, current_stats_, energy_history_ >>

\* ------------------------------------------------------------------- reset

reset_entry(t) ==
  /\ CanCall(t)
  /\ IF ~atom.initialized_
     THEN ReturnAtOnce(t, "reset", NoArg, VoidRet("reset"))
     ELSE /\ Goto(t, "r_wait")
          /\ loc' = [loc EXCEPT ![t] = Locals("reset", NoArg)]
          /\ ret' = ret
  /\ UNCHANGED object

\* while (processing_active_.load()) sleep; energy_history_ is zero-filled.
reset_wait(t) ==
  /\ pc[t] = "r_wait"
  /\ ~atom.processing_active_
  /\ Goto(t, "r_config")
  /\ UNCHANGED << object, loc, ret >>

\* Under config_mutex_: the two scalars are re-read from config_.
reset_config(t) ==
  /\ pc[t] = "r_config"
  /\ mtx.config_mutex_ = "free"
  /\ atom' = [atom EXCEPT
                !.current_center_freq_ = config_.center_frequency,
                !.ssb_carrier_offset_ = config_.ssb_carrier_offset]
  /\ Goto(t, "r_stats")
  /\ UNCHANGED << res, mtx, config_, filter_kernel_, current_stats_,
                  energy_history_, loc, ret >>

\* reset_stats without the store to current_stats_.samples_processed.
reset_stats_keep_snapshot(t) ==
  /\ pc[t] = "r_stats"
  /\ mtx.stats_mutex_ = "free"
  /\ atom' = [atom EXCEPT !.total_samples_processed_ = 0]
  /\ current_stats_' = current_stats_
  /\ Return(t, VoidRet("reset"))
  /\ UNCHANGED << res, mtx, config_, filter_kernel_, energy_history_ >>

\* Under stats_mutex_: the counters are zeroed.
reset_stats(t) ==
  /\ pc[t] = "r_stats"
  /\ mtx.stats_mutex_ = "free"
  /\ atom' = [atom EXCEPT !.total_samples_processed_ = 0]
  /\ current_stats_' = [current_stats_ EXCEPT !.samples_processed = 0]
  /\ Return(t, VoidRet("reset"))
  /\ UNCHANGED << res, mtx, config_, filter_kernel_, energy_history_ >>

\* ----------------------------------------------------------------- queries

\* getStats takes stats_mutex_ ...
getStats_lock(t) ==
  /\ CanCall(t)
  /\ mtx.stats_mutex_ = "free"
  /\ mtx' = [mtx EXCEPT !.stats_mutex_ = t]
  /\ Goto(t, "gs_body")
  /\ loc' = [loc EXCEPT ![t] = Locals("getStats", NoArg)]
  /\ UNCHANGED << atom, res, config_, filter_kernel_, current_stats_,
                  energy_history_, ret >>

\* The FilterStats getStats builds.
StatsSnapshot ==
  [current_stats_ EXCEPT
     !.passband_width_hz = atom.passband_high_hz_ - atom.passband_low_hz_,
     !.current_center_freq = atom.current_center_freq_,
     !.ssb_carrier_offset_hz = atom.ssb_carrier_offset_,
     !.stopband_attenuation_db = config_.stopband_attenuation,
     !.ssb_mode_active = IsSSB(config_.protocol)]

\* ... and, holding it, config_mutex_; the copy is returned.
getStats_body(t) ==
  /\ pc[t] = "gs_body"
  /\ mtx.config_mutex_ = "free"
  /\ mtx' = [mtx EXCEPT !.stats_mutex_ = "free"]
  /\ Return(t, [NoRet EXCEPT !.op = "getStats", !.ok = TRUE,
                             !.stats = StatsSnapshot])
  /\ UNCHANGED << atom, res, config_, filter_kernel_, current_stats_,
                  energy_history_ >>

NumRet(op, v) == [NoRet EXCEPT !.op = op, !.ok = TRUE, !.num = v]

\* The readiness test; filter_mutex_ is taken.
getResponse_entry(t, frequency) ==
  /\ CanCall(t)
  /\ LET arg == [NoArg EXCEPT !.a = frequency]
     IN  IF ~isValidForProcessing
         THEN /\ ReturnAtOnce(t, "getResponse", arg,
                              NumRet("getResponse", GainOne))
              /\ mtx' = mtx
         ELSE /\ mtx.filter_mutex_ = "free"
              /\ mtx' = [mtx EXCEPT !.filter_mutex_ = t]
              /\ Goto(t, "gr_body")
              /\ loc' = [loc EXCEPT ![t] = Locals("getResponse", arg)]
              /\ ret' = ret
  /\ UNCHANGED << atom, res, config_, filter_kernel_, current_stats_,
                  energy_history_ >>

\* ResponseAt without the test against the Nyquist frequency.
ResponseAt_no_nyquist(frequency) ==
  LET nyquist == config_.sample_rate \div 2
      raw == (frequency + nyquist) \div atom.frequency_resolution_
      bin == Max(0, Min(raw, atom.fft_size_ - 1))
  IN  IF bin < filter_kernel_.size THEN KernelGain(filter_kernel_, bin)
      ELSE GainOne

\* The value getResponse computes once the kernel is known not to be empty.
ResponseAt(frequency) ==
  LET nyquist == config_.sample_rate \div 2
      raw == (frequency + nyquist) \div atom.frequency_resolution_
      bin == Max(0, Min(raw, atom.fft_size_ - 1))
  IN  IF Abs(frequency) > nyquist THEN 0
      ELSE IF bin < filter_kernel_.size THEN KernelGain(filter_kernel_, bin)
      ELSE GainOne

\* Holding filter_mutex_: an empty kernel answers 1.0f; otherwise
\* config_mutex_ is taken for the sample rate and the bin is looked up.
getResponse_body(t) ==
  /\ pc[t] = "gr_body"
  /\ IF filter_kernel_.size = 0
     THEN Return(t, NumRet("getResponse", GainOne))
     ELSE /\ mtx.config_mutex_ = "free"
          /\ Return(t, NumRet("getResponse", ResponseAt(loc[t].arg.a)))
  /\ mtx' = [mtx EXCEPT !.filter_mutex_ = "free"]
  /\ UNCHANGED << atom, res, config_, filter_kernel_, current_stats_,
                  energy_history_ >>

\* Under config_mutex_: return config_
getConfiguration(t) ==
  /\ CanCall(t)
  /\ mtx.config_mutex_ = "free"
  /\ ReturnAtOnce(t, "getConfiguration", NoArg,
                  [NoRet EXCEPT !.op = "getConfiguration", !.ok = TRUE,
                                !.cfg = config_])
  /\ UNCHANGED object

\* Under state_mutex_: return initialized_
isInitialized(t) ==
  /\ CanCall(t)
  /\ mtx.state_mutex_ = "free"
  /\ ReturnAtOnce(t, "isInitialized", NoArg,
                  BoolRet("isInitialized", atom.initialized_))
  /\ UNCHANGED object

\* Under config_mutex_: protocol is USB or LSB
isSSBMode(t) ==
  /\ CanCall(t)
  /\ mtx.config_mutex_ = "free"
  /\ ReturnAtOnce(t, "isSSBMode", NoArg,
                  BoolRet("isSSBMode", IsSSB(config_.protocol)))
  /\ UNCHANGED object

\* ---------------------------------------------------------- specifications

\* The steps of a call in progress, by method.
ProcessSteps(t) ==
  \/ process_set_active(t)
  \/ process_size_check(t)
  \/ process_dirty_check(t)
  \/ process_loop(t)
  \/ process_block_lock(t)
  \/ process_multiply(t)
  \/ process_inverse(t)
  \/ process_stats(t)
  \/ process_return(t)

UpdateSteps(t) ==
  \/ updateFilterParameters_entry(t)
  \/ updateFilterParameters_config(t)
  \/ safelyUpdateKernel_entry(t)
  \/ safelyUpdateKernel_body(t)
  \/ designFilter_stats_lock(t)
  \/ designFilter_stats(t)
  \/ updateFilterParameters_clear(t)

SSBSteps(t) ==
  \/ designSSBFilter_entry(t)
  \/ applySSBShaping_lock(t)
  \/ applySSBShaping_body(t)

CleanupSteps(t) ==
  \/ cleanup_free(t)
  \/ cleanup_kernel(t)
  \/ cleanup_done(t)

\* initialize after its argument test, allocation ending as one of outcomes.
InitializeSteps(t, outcomes) ==
  \/ initialize_wait(t)
  \/ initialize_lock_state(t)
  \/ initialize_lock_config(t)
  \/ initialize_lock_fft(t)
  \/ \E outcome \in outcomes : initialize_alloc(t, outcome)
  \/ initialize_kernel(t)
  \/ initialize_passband(t)
  \/ initialize_stats(t)
  \/ initialize_publish(t)
  \/ initialize_return(t)

\* --- Spec: one caller; the life cycle (initialize with good and bad
\* arguments, allocation failing or not) around processing.

SeqInitArgs == { << 2048000, 256 >>, << 2048000, 512 >>, << 0, 256 >>,
                 << 0 - 48000, 512 >>, << 2048000, 128 >>, << 2048000, 384 >>,
                 << 2048000, 0 >> }
SeqInputLens == { 0, 300 }

\* Allocation succeeds, or the second buffer or the second plan is null.
SeqAllocOutcomes ==
  { AllResources,
    [NoResources EXCEPT !.fft_input_ = TRUE],
    [AllResources EXCEPT !.inverse_plan_ = FALSE] }

Call_initialize(t) ==
  \E a \in SeqInitArgs : initialize_entry(t, a[1], a[2])

Next ==
  \/ Call_initialize("t1")
  \/ \E len \in SeqInputLens : process_entry("t1", len)
  \/ \E b \in BOOLEAN : setEnabled_entry("t1", b)
  \/ setPassband_entry("t1", 300, 3000)
  \/ ProcessSteps("t1")
  \/ UpdateSteps("t1")
  \/ designFilter_entry("t1")
  \/ CleanupSteps("t1")
  \/ InitializeSteps("t1", SeqAllocOutcomes)
  \/ initialize_fail("t1")
  \/ setEnabled_stats("t1")
  \/ setPassband_store("t1")

Spec == Init /\ [][Next]_vars

\* --- SpecMutators: one caller; every mutator, on a filter that is or is not
\* initialized.

MutConfig ==
  [protocol |-> "NBFM", shape |-> "HAMMING", stopband_attenuation |-> 50,
   center_frequency |-> 8000, bandwidth |-> 12500, sample_rate |-> 2048000,
   ssb_carrier_offset |-> 0, ssb_sharp_cutoff |-> FALSE]

NextMutators ==
  \/ initialize_entry("t1", 2048000, 256)
  \/ configure_entry("t1", MutConfig)
  \/ \E b \in BOOLEAN : setEnabled_entry("t1", b)
  \/ \E p \in { "WFM", "USB" } : setProtocol_entry("t1", p)
  \/ \E e \in { << 300, 3000 >>, << 3000, 300 >> } :
       setPassband_entry("t1", e[1], e[2])
  \/ setCenterFrequency_entry("t1", 16000)
  \/ setSSBCarrierOffset_entry("t1", 700)
  \/ \E b \in BOOLEAN : setSSBSharpCutoff_entry("t1", b)
  \/ designFilter_entry("t1")
  \/ CleanupSteps("t1")
  \/ InitializeSteps("t1", SeqAllocOutcomes)
  \/ initialize_fail("t1")
  \/ configure_body("t1")
  \/ setEnabled_stats("t1")
  \/ setProtocol_config("t1")
  \/ setProtocol_stats("t1")
  \/ setPassband_store("t1")
  \/ setCenterFrequency_config("t1")
  \/ setSSBCarrierOffset_config("t1")
  \/ setSSBCarrierOffset_stats("t1")
  \/ setSSBSharpCutoff_config("t1")

SpecMutators == Init /\ [][NextMutators]_vars

\* --- SpecPassband: one caller; passband edges set, redesigned from, and
\* reported, under a non-SSB and an SSB protocol.

BandPassbands == { << 0 - 5000, 5000 >>, << 300, 3000 >>, << 1000, 1000 >>,
                   << 3000, 300 >> }

NextPassband ==
  \/ initialize_entry("t1", 2048000, 256)
  \/ setEnabled_entry("t1", TRUE)
  \/ \E p \in { "AM", "USB" } : setProtocol_entry("t1", p)
  \/ \E e \in BandPassbands : setPassband_entry("t1", e[1], e[2])
  \/ process_entry("t1", 300)
  \/ getStats_lock("t1")
  \/ ProcessSteps("t1")
  \/ UpdateSteps("t1")
  \/ SSBSteps("t1")
  \/ designFilter_entry("t1")
  \/ CleanupSteps("t1")
  \/ InitializeSteps("t1", { AllResources })
  \/ setEnabled_stats("t1")
  \/ setProtocol_config("t1")
  \/ setProtocol_stats("t1")
  \/ setPassband_store("t1")
  \/ getStats_body("t1")

SpecPassband == Init /\ [][NextPassband]_vars

\* --- SpecRace: two threads on one filter; t1 processes while t2
\* initializes (again), enables or disables, and sets the passband.

RaceInputLen == 300
RacePassband == << 300, 3000 >>

NextRace ==
  \/ process_entry("t1", RaceInputLen)
  \/ ProcessSteps("t1")
  \/ UpdateSteps("t1")
  \/ designFilter_entry("t1") \/ designFilter_entry("t2")
  \/ initialize_entry("t2", 2048000, 256)
  \/ InitializeSteps("t2", { AllResources })
  \/ CleanupSteps("t2")
  \/ \E b \in BOOLEAN : setEnabled_entry("t2", b)
  \/ setEnabled_stats("t2")
  \/ setPassband_entry("t2", RacePassband[1], RacePassband[2])
  \/ setPassband_store("t2")

SpecRace == Init /\ [][NextRace]_vars

\* --- SpecLocks: three threads on one filter, none of them processing; t1
\* asks for the response, t2 initializes and reads the stats, t3 enables
\* and sets the protocol.

NextLocks ==
  \/ getResponse_entry("t1", 0)
  \/ getResponse_body("t1")
  \/ initialize_entry("t2", 2048000, 256)
  \/ InitializeSteps("t2", { AllResources })
  \/ CleanupSteps("t2")
  \/ designFilter_entry("t2")
  \/ getStats_lock("t2")
  \/ getStats_body("t2")
  \/ setEnabled_entry("t3", TRUE)
  \/ setEnabled_stats("t3")
  \/ \E p \in { "AM", "USB" } : setProtocol_entry("t3", p)
  \/ setProtocol_config("t3")
  \/ setProtocol_stats("t3")

SpecLocks == Init /\ [][NextLocks]_vars

\* --- SpecProtocol: calls made one after another, never overlapping. t1
\* initializes, configures, sets any protocol and reads the configuration;
\* then t2 calls setProtocol(USB), then t3 calls setProtocol(LSB), then t1
\* calls setProtocol with the protocol getConfiguration had reported.

ProtoConfig ==
  [protocol |-> "AM", shape |-> "KAISER", stopband_attenuation |-> 60,
   center_frequency |-> 8000, bandwidth |-> 6000, sample_rate |-> 2048000,
   ssb_carrier_offset |-> 700, ssb_sharp_cutoff |-> TRUE]

ProtocolSetup ==
  /\ loc["t2"].op = "none"
  /\ \/ initialize_entry("t1", 2048000, 256)
     \/ configure_entry("t1", ProtoConfig)
     \/ \E p \in Protocols : setProtocol_entry("t1", p)
     \/ getConfiguration("t1")

ProtocolRoundTrip ==
  \/ /\ pc["t1"] = "idle" /\ loc["t1"].op = "getConfiguration"
     /\ loc["t2"].op = "none"
     /\ setProtocol_entry("t2", "USB")
  \/ /\ pc["t2"] = "idle" /\ loc["t2"].op = "setProtocol"
     /\ loc["t3"].op = "none"
     /\ setProtocol_entry("t3", "LSB")
  \/ /\ pc["t3"] = "idle" /\ loc["t3"].op = "setProtocol"
     /\ loc["t1"].op = "getConfiguration"
     /\ setProtocol_entry("t1", ret["t1"].cfg.protocol)

NextProtocol ==
  \/ ProtocolSetup
  \/ ProtocolRoundTrip
  \/ InitializeSteps("t1", { AllResources })
  \/ CleanupSteps("t1")
  \/ designFilter_entry("t1")
  \/ configure_body("t1")
  \/ \E t \in Threads : setProtocol_config(t)
  \/ \E t \in Threads : setProtocol_stats(t)

SpecProtocol == Init /\ [][NextProtocol]_vars

\* --- SpecProcess: one caller; inputs of no, one, two and a half, ten and
\* more than ten blocks, the stats read and reset in between.

ProcessInputLens == { 0, 300, 640, 2560, 2561 }

NextProcess ==
  \/ initialize_entry("t1", 2048000, 256)
  \/ \E b \in BOOLEAN : setEnabled_entry("t1", b)
  \/ setPassband_entry("t1", 300, 3000)
  \/ \E len \in ProcessInputLens : process_entry("t1", len)
  \/ getStats_lock("t1")
  \/ reset_entry("t1")
  \/ ProcessSteps("t1")
  \/ UpdateSteps("t1")
  \/ designFilter_entry("t1")
  \/ CleanupSteps("t1")
  \/ InitializeSteps("t1", { AllResources })
  \/ setEnabled_stats("t1")
  \/ setPassband_store("t1")
  \/ getStats_body("t1")
  \/ reset_wait("t1")
  \/ reset_config("t1")
  \/ reset_stats("t1")

SpecProcess == Init /\ [][NextProcess]_vars

\* --- SpecResponse: one caller; the response asked for before and after
\* the kernel is designed, under the constructor's WFM configuration and
\* under USB.

ResponseFreqs == { 0, 0 - 100, 1000, 200000, 0 - 200000, 1024000, 1100000,
                   0 - 1100000 }

NextResponse ==
  \/ initialize_entry("t1", 2048000, 256)
  \/ \E b \in BOOLEAN : setEnabled_entry("t1", b)
  \/ setCenterFrequency_entry("t1", 0)
  \/ setProtocol_entry("t1", "USB")
  \/ process_entry("t1", 300)
  \/ \E f \in ResponseFreqs : getResponse_entry("t1", f)
  \/ ProcessSteps("t1")
  \/ UpdateSteps("t1")
  \/ SSBSteps("t1")
  \/ designFilter_entry("t1")
  \/ CleanupSteps("t1")
  \/ InitializeSteps("t1", { AllResources })
  \/ setEnabled_stats("t1")
  \/ setCenterFrequency_config("t1")
  \/ setProtocol_config("t1")
  \/ setProtocol_stats("t1")
  \/ getResponse_body("t1")

SpecResponse == Init /\ [][NextResponse]_vars

\* --- SpecWait: t1 processes and resets, call after call; t2 initializes,
\* enables and initializes again. The steps of a call that has started are
\* taken sooner or later (each thread runs); when a call is made is up to
\* the caller. The wait loop of initialize polls processing_active_: its
\* step is the poll that reads false.

WaitInputLen == 2000

WaitCalls ==
  \/ process_entry("t1", WaitInputLen)
  \/ reset_entry("t1")
  \/ initialize_entry("t2", 2048000, 256)
  \/ setEnabled_entry("t2", TRUE)

WaitSteps1 ==
  \/ ProcessSteps("t1")
  \/ UpdateSteps("t1")
  \/ designFilter_entry("t1")
  \/ reset_wait("t1")
  \/ reset_config("t1")
  \/ reset_stats("t1")

WaitSteps2 ==
  \/ InitializeSteps("t2", { AllResources })
  \/ CleanupSteps("t2")
  \/ designFilter_entry("t2")
  \/ setEnabled_stats("t2")

NextWait == WaitCalls \/ WaitSteps1 \/ WaitSteps2

SpecWait ==
  Init /\ [][NextWait]_vars /\ WF_vars(WaitSteps1) /\ WF_vars(WaitSteps2)

\* --- SpecOverlap: two threads process at the same time under USB; t1 also
\* sets the filter up, t2 also reads the response.

OverlapInputLen == 1400

NextOverlap ==
  \/ initialize_entry("t1", 2048000, 2048)
  \/ setEnabled_entry("t1", TRUE)
  \/ setProtocol_entry("t1", "USB")
  \/ \E t \in { "t1", "t2" } : process_entry(t, OverlapInputLen)
  \/ getResponse_entry("t2", 0 - 1000)
  \/ \E t \in { "t1", "t2" } :
       \/ ProcessSteps(t)
       \/ UpdateSteps(t)
       \/ SSBSteps(t)
       \/ designFilter_entry(t)
  \/ CleanupSteps("t1")
  \/ InitializeSteps("t1", { AllResources })
  \/ setEnabled_stats("t1")
  \/ setProtocol_config("t1")
  \/ setProtocol_stats("t1")
  \/ getResponse_body("t2")

SpecOverlap == Init /\ [][NextOverlap]_vars

\* --- SpecDesign: one caller; the kernel is designed under the three
\* non-SSB protocols, with passband edges on and off the bin grid and the
\* centre frequency moved.

DesignPassbands == { << 0 - 100, 3000 >>, << 0, 8000 >>, << 300, 3000 >> }

NextDesign ==
  \/ initialize_entry("t1", 2048000, 256)
  \/ setEnabled_entry("t1", TRUE)
  \/ \E p \in { "WFM", "NBFM", "AM" } : setProtocol_entry("t1", p)
  \/ \E e \in DesignPassbands : setPassband_entry("t1", e[1], e[2])
  \/ setCenterFrequency_entry("t1", 8000)
  \/ process_entry("t1", 1400)
  \/ ProcessSteps("t1")
  \/ UpdateSteps("t1")
  \/ designFilter_entry("t1")
  \/ CleanupSteps("t1")
  \/ InitializeSteps("t1", { AllResources })
  \/ setEnabled_stats("t1")
  \/ setProtocol_config("t1")
  \/ setProtocol_stats("t1")
  \/ setPassband_store("t1")
  \/ setCenterFrequency_config("t1")

SpecDesign == Init /\ [][NextDesign]_vars

\* ------------------------------------------------------------------ claims

\* The single caller of Spec, SpecMutators and SpecPassband.
Caller == "t1"

\* The caller is between calls and its last call was of method op.
Finished(op) == pc[Caller] = "idle" /\ loc[Caller].op = op

\* This step is the caller starting a call of method op.
Starts(op) == pc[Caller] = "idle" /\ loc'[Caller].op = op

\* The thread that calls process in SpecRace.
Processor == "t1"

\* The steps of process between the pointer test under fft_mutex_ and the
\* end of the inverse transform of the block.
UsingResources(t) == pc[t] \in { "p_mul", "p_inv" }

\* C1: while a process call is between the test of the plan and buffer
\* pointers and the end of its use of them for a block, the two plans and
\* the two buffers exist: the wait on processing_active_ keeps cleanup out.
C1_NoFreeDuringBlock ==
  \A t \in Threads : UsingResources(t) => ResourcesPresent

\* The mutex thread t must take next at its position, or "none".
Awaits(t) ==
  CASE pc[t] = "sp_stats" -> "stats_mutex_"
    [] pc[t] = "gs_body" -> "config_mutex_"
    [] pc[t] = "gr_body" /\ filter_kernel_.size # 0 -> "config_mutex_"
    [] pc[t] = "k_body" -> "config_mutex_"
    [] pc[t] = "i_kernel" -> "filter_mutex_"
    [] pc[t] = "d_stats" -> "stats_mutex_"
    [] pc[t] = "d_stats_body" -> "config_mutex_"
    [] OTHER -> "none"

\* C2: no two threads each hold a mutex the other one is waiting for.
C2_NoLockCycle ==
  \A a, b \in Threads :
    ~( /\ a # b
       /\ Awaits(a) # "none" /\ mtx[Awaits(a)] = b
       /\ Awaits(b) # "none" /\ mtx[Awaits(b)] = a )

\* C3: whenever process has returned, what it returned has the length of
\* its input, be it the filtered output or the input itself.
C3_ProcessKeepsLength ==
  (pc[Processor] = "idle" /\ ret[Processor].op = "process")
    => ret[Processor].num = loc[Processor].arg.a

\* The kernel a redesign from the parameters as they are now leaves.
RedesignNow ==
  LET base == DesignedKernel(filter_kernel_, DesignRead)
  IN  IF IsSSB(config_.protocol)
      THEN KernelShaped(base, [n |-> atom.fft_size_,
                               res |-> atom.frequency_resolution_,
                               protocol |-> config_.protocol,
                               center |-> atom.current_center_freq_])
      ELSE base

\* Kernels j and k have the same size and the same gain in every bin.
SameKernel(j, k) ==
  \/ j = k
  \/ /\ j.size = k.size
     /\ \A i \in 0 .. j.size - 1 : KernelGain(j, i) = KernelGain(k, i)

\* C5: when no call is in progress, the last process call returned a
\* filtered output of full length, the kernel has been designed since initialize and the dirty flag is
\* clear (so no later process call will redesign), the kernel is the design
\* of the parameters as they are: no change was dropped by a redesign that
\* did not read it.
C5_NoLostUpdate ==
  ( /\ \A t \in Threads : pc[t] = "idle"
    /\ ret[Processor].op = "process" /\ ret[Processor].ok
    /\ ret[Processor].num = loc[Processor].arg.a
    /\ isValidForProcessing
    /\ Len(filter_kernel_.layers) > 0
    /\ ~atom.parameters_changed_ )
  => SameKernel(filter_kernel_, RedesignNow)

\* The bins whose frequency lies beyond the transition bands of [low, high].
FarBins(n, resolution, low, high) ==
  { i \in 0 .. n - 1 :
      \/ BinFreq(i, n, resolution) < low - 2 * resolution
      \/ BinFreq(i, n, resolution) > high + 2 * resolution }

\* The passband the current protocol's defaults give, as the designer
\* places it.
DefaultLow ==
  config_.center_frequency - HalfBandwidth(config_.protocol)
    + (IF IsSSB(config_.protocol)
       THEN PROTOCOL_DEFAULTS[config_.protocol].carrier_offset ELSE 0)
DefaultHigh ==
  config_.center_frequency + HalfBandwidth(config_.protocol)
    + (IF IsSSB(config_.protocol)
       THEN PROTOCOL_DEFAULTS[config_.protocol].carrier_offset ELSE 0)

\* C4: when initialize has returned true, the kernel is the design from the
\* protocol's default passband: every bin far outside the default passband
\* carries the stopband floor 10^(-attenuation/20), not the all-pass 1.0.
C4_InitializeDesignsKernel ==
  (Finished("initialize") /\ ret[Caller].ok) =>
    \A i \in FarBins(atom.fft_size_, atom.frequency_resolution_,
                     DefaultLow, DefaultHigh) :
      KernelGain(filter_kernel_, i) = MinResponse(config_.stopband_attenuation)

\* n is 2^k for some k.
IsPowerOfTwo(n) == \E k \in 0 .. 30 : n = 2 ^ k

\* The arguments the claim calls invalid.
Rejected(sample_rate, fft_size) ==
  sample_rate <= 0 \/ fft_size < 256 \/ ~IsPowerOfTwo(fft_size)

\* C6: a call initialize(sample_rate, fft_size) with sample_rate <= 0,
\* fft_size < 256 or fft_size not a power of two returns false in the step
\* that makes it and leaves every field of the object as it was.
C6_BadInitializeChangesNothing ==
  [][ (Starts("initialize")
         /\ Rejected(loc'[Caller].arg.a, loc'[Caller].arg.b))
      => /\ pc'[Caller] = "idle"
         /\ ret'[Caller] = BoolRet("initialize", FALSE)
         /\ UNCHANGED object ]_vars

\* C6 witness: a rejected initialize has returned on a filter that is
\* initialized, enabled and has a designed kernel, all of which it kept.
C6_Witness ==
  /\ Finished("initialize")
  /\ Rejected(loc[Caller].arg.a, loc[Caller].arg.b)
  /\ ~ret[Caller].ok
  /\ atom.initialized_ /\ atom.enabled_
  /\ ResourcesPresent
  /\ Len(filter_kernel_.layers) > 0

\* initialize has returned false for arguments it accepted: allocation or
\* plan creation failed.
AllocationFailed ==
  /\ Finished("initialize")
  /\ ~Rejected(loc[Caller].arg.a, loc[Caller].arg.b)
  /\ ~ret[Caller].ok

\* C7: once initialize has returned false because a buffer or a plan could
\* not be made, no plan or buffer is held, the kernel is empty, the filter
\* is not initialized, no lock is left held, and a process call made then
\* returns its input at once and changes nothing.
C7_FailedInitializeRollsBack ==
  [][ AllocationFailed =>
        /\ res = NoResources
        /\ filter_kernel_ = EmptyKernel
        /\ ~atom.initialized_
        /\ \A m \in DOMAIN mtx : mtx[m] = "free"
        /\ Starts("process") =>
             /\ pc'[Caller] = "idle"
             /\ ret'[Caller] = InputReturned(loc'[Caller].arg.a)
             /\ UNCHANGED object ]_vars

\* C7 witness: a failed allocation on a filter that is enabled and had been
\* initialized before (its block size is set), after which process was
\* called with a non-empty input and bypassed.
C7_Witness ==
  /\ Finished("process")
  /\ loc[Caller].arg.a > 0
  /\ ~ret[Caller].ok
  /\ atom.enabled_ /\ atom.fft_size_ > 0
  /\ ~atom.initialized_
  /\ res = NoResources

MutatorNames == { "configure", "setProtocol", "setEnabled", "setPassband",
                  "setCenterFrequency", "setSSBCarrierOffset",
                  "setSSBSharpCutoff" }

\* This step belongs to a call of a configuration mutator.
MutatorStep ==
  \/ (pc[Caller] = "idle" /\ loc'[Caller].op \in MutatorNames)
  \/ (pc[Caller] # "idle" /\ loc[Caller].op \in MutatorNames)

\* C8: no step of a configuration mutator taken while the filter is not
\* initialized changes the configuration, a fast scalar (the enabled flag
\* and the dirty flag among them) or the stats snapshot.
C8_MutatorsNoOpUninitialized ==
  [][ (~atom.initialized_ /\ MutatorStep)
      => UNCHANGED << config_, atom, current_stats_ >> ]_vars

\* The pairs setPassband accepts among those the caller passes.
AcceptedPassbands == { e \in BandPassbands : e[1] < e[2] }

\* C9: setPassband(low, high) with low < high stores exactly (low, high),
\* and edges so stored are still the stored edges when the next redesign
\* and the next getStats read them: no step of process or getStats replaces
\* them, whatever the protocol and whether or not the pair is symmetric.
C9_PassbandStoredAndUsed ==
  [][ /\ pc[Caller] = "pb_store" =>
           /\ atom'.passband_low_hz_ = loc[Caller].arg.a
           /\ atom'.passband_high_hz_ = loc[Caller].arg.b
      /\ ( /\ pc[Caller] # "idle"
           /\ loc[Caller].op \in { "process", "getStats" }
           /\ << atom.passband_low_hz_, atom.passband_high_hz_ >>
                \in AcceptedPassbands )
         => /\ atom'.passband_low_hz_ = atom.passband_low_hz_
            /\ atom'.passband_high_hz_ = atom.passband_high_hz_ ]_vars

\* C10: a call setPassband(low, high) with low >= high returns normally in
\* the step that makes it and leaves every field of the object, the
\* passband edges and the dirty flag among them, as it was.
C10_BadPassbandIsNoOp ==
  [][ (Starts("setPassband") /\ loc'[Caller].arg.a >= loc'[Caller].arg.b)
      => /\ pc'[Caller] = "idle"
         /\ ret'[Caller] = VoidRet("setPassband")
         /\ UNCHANGED object ]_vars

\* C10 witness: a rejected setPassband has returned on an initialized filter
\* whose dirty flag is clear and whose edges are an earlier accepted pair.
C10_Witness ==
  /\ Finished("setPassband")
  /\ loc[Caller].arg.a >= loc[Caller].arg.b
  /\ atom.initialized_
  /\ ~atom.parameters_changed_
  /\ << atom.passband_low_hz_, atom.passband_high_hz_ >> \in AcceptedPassbands

\* The configuration setProtocol(p) leaves when p is not the protocol of c.
WithProtocol(c, p) ==
  [c EXCEPT !.protocol = p,
            !.bandwidth = PROTOCOL_DEFAULTS[p].passband_width,
            !.stopband_attenuation = PROTOCOL_DEFAULTS[p].stopband_atten,
            !.ssb_carrier_offset = PROTOCOL_DEFAULTS[p].carrier_offset,
            !.ssb_sharp_cutoff = PROTOCOL_DEFAULTS[p].sharp_cutoff]

\* This step is thread t starting a call of setProtocol or taking a step of
\* one.
SetProtocolStep(t) ==
  /\ pc'[t] # pc[t] \/ loc'[t] # loc[t] \/ ret'[t] # ret[t]
  /\ \/ (pc[t] = "idle" /\ loc'[t].op = "setProtocol")
     \/ (pc[t] # "idle" /\ loc[t].op = "setProtocol")

\* C11: on an initialized filter the step of setProtocol(p) that compares p
\* with the current protocol changes neither the configuration nor a scalar
\* nor the dirty flag when they are equal; otherwise it sets the protocol to
\* p, the bandwidth, stopband attenuation, SSB carrier offset and
\* sharp-cutoff flag to p's defaults, the passband edges to -w/2 and +w/2 for
\* p's default width w, and the dirty flag. No other step of the call
\* touches the configuration or the scalars.
C11_SetProtocolEffect ==
  [][ \A t \in Threads :
        (SetProtocolStep(t) /\ atom.initialized_) =>
          IF pc[t] = "sp_config" /\ config_.protocol # loc[t].arg.p
          THEN /\ config_' = WithProtocol(config_, loc[t].arg.p)
               /\ atom' = [atom EXCEPT
                    !.passband_low_hz_ =
                       0 - (PROTOCOL_DEFAULTS[loc[t].arg.p].passband_width
                              \div 2),
                    !.passband_high_hz_ =
                       PROTOCOL_DEFAULTS[loc[t].arg.p].passband_width \div 2,
                    !.ssb_carrier_offset_ =
                       PROTOCOL_DEFAULTS[loc[t].arg.p].carrier_offset,
                    !.ssb_sharp_cutoff_ =
                       PROTOCOL_DEFAULTS[loc[t].arg.p].sharp_cutoff,
                    !.parameters_changed_ = TRUE]
          ELSE UNCHANGED << config_, atom >> ]_vars

\* C11 witness: setProtocol(USB) has returned on an initialized filter that
\* carries USB's defaults and a set dirty flag.
C11_Witness ==
  /\ Finished("setProtocol") /\ loc[Caller].arg.p = "USB"
  /\ \A t \in Threads : pc[t] = "idle"
  /\ atom.initialized_
  /\ config_.protocol = "USB" /\ config_.stopband_attenuation = 70
  /\ atom.passband_low_hz_ = 0 - 1500 /\ atom.passband_high_hz_ = 1500
  /\ atom.ssb_carrier_offset_ = 1500 /\ atom.ssb_sharp_cutoff_
  /\ atom.parameters_changed_

\* setProtocol(USB) by t2, then setProtocol(LSB) by t3, then setProtocol(P)
\* by t1 have returned, P being the protocol before the three calls.
RoundTripDone ==
  /\ \A t \in Threads : pc[t] = "idle"
  /\ loc["t2"].op = "setProtocol" /\ loc["t2"].arg.p = "USB"
  /\ loc["t3"].op = "setProtocol" /\ loc["t3"].arg.p = "LSB"
  /\ loc["t1"].op = "setProtocol"
  /\ atom.initialized_

\* C12: after setProtocol(USB), setProtocol(LSB), setProtocol(P) on an
\* initialized filter whose protocol was P, the protocol is P, the bandwidth
\* and the passband width are P's default width and the stopband
\* attenuation is P's default, whatever the configuration was before.
C12_ProtocolRoundTrip ==
  RoundTripDone =>
    LET P == loc["t1"].arg.p
    IN  /\ config_.protocol = P
        /\ config_.bandwidth = PROTOCOL_DEFAULTS[P].passband_width
        /\ atom.passband_high_hz_ - atom.passband_low_hz_
             = PROTOCOL_DEFAULTS[P].passband_width
        /\ config_.stopband_attenuation = PROTOCOL_DEFAULTS[P].stopband_atten

\* C12 witness: the three calls are done for P = AM, and the configuration
\* shows that configure(ProtoConfig) had been called before them.
C12_Witness ==
  /\ RoundTripDone
  /\ loc["t1"].arg.p = "AM"
  /\ config_.shape = "KAISER"
  /\ config_.stopband_attenuation = 40

\* C13: the step of configure(c) on an initialized filter makes config_
\* equal to c, the SSB carrier-offset and sharp-cutoff scalars equal to c's,
\* and sets the dirty flag; getConfiguration() called next returns c.
C13_ConfigureReplaces ==
  [][ /\ pc[Caller] = "cfg_body" =>
           /\ config_' = loc[Caller].arg.c
           /\ atom'.ssb_carrier_offset_ = loc[Caller].arg.c.ssb_carrier_offset
           /\ atom'.ssb_sharp_cutoff_ = loc[Caller].arg.c.ssb_sharp_cutoff
           /\ atom'.parameters_changed_
      /\ ( Finished("configure") /\ atom.initialized_
             /\ Starts("getConfiguration") )
         => /\ ret'[Caller].cfg = loc[Caller].arg.c
            /\ atom.ssb_carrier_offset_ = loc[Caller].arg.c.ssb_carrier_offset
            /\ atom.ssb_sharp_cutoff_ = loc[Caller].arg.c.ssb_sharp_cutoff
            /\ atom.parameters_changed_ ]_vars

\* C13 witness: getConfiguration has returned ProtoConfig on an initialized
\* filter whose protocol had been USB before configure(ProtoConfig): the
\* stats snapshot still says SSB.
C13_Witness ==
  /\ Finished("getConfiguration")
  /\ ret[Caller].cfg = ProtoConfig
  /\ config_ = ProtoConfig
  /\ atom.initialized_
  /\ atom.ssb_carrier_offset_ = 700 /\ atom.ssb_sharp_cutoff_
  /\ current_stats_.ssb_mode_active

\* This step is the caller starting a call of method op or taking a step of
\* one.
StepOf(op) ==
  \/ (pc[Caller] = "idle" /\ loc'[Caller].op = op)
  \/ (pc[Caller] # "idle" /\ loc[Caller].op = op)

\* The conditions under which process(input) with input.size() = len is to
\* return its input.
BypassCondition(len) ==
  \/ ~atom.initialized_
  \/ ~atom.enabled_
  \/ atom.fft_size_ <= 0
  \/ atom.frequency_resolution_ <= 0
  \/ len = 0
  \/ len > 10 * atom.fft_size_

\* C14: a process call on a filter that is not initialized, not enabled or
\* without a block size or frequency resolution, or with an empty input or
\* one longer than 10 x block_size, returns its input, and no step of it
\* changes the kernel, the dirty flag or a sample counter; the
\* processing-active flag is clear when it returns. Any other call, one of
\* exactly 10 x block_size samples included, returns a filtered output.
C14_BypassConditions ==
  [][ StepOf("process") =>
        IF BypassCondition(loc'[Caller].arg.a)
        THEN /\ UNCHANGED << filter_kernel_, atom.parameters_changed_,
                             atom.total_samples_processed_,
                             current_stats_.samples_processed >>
             /\ pc'[Caller] = "idle" =>
                  /\ ret'[Caller] = InputReturned(loc'[Caller].arg.a)
                  /\ ~atom'.processing_active_
        ELSE pc'[Caller] = "idle" =>
               /\ ret'[Caller].ok
               /\ ret'[Caller].num = loc'[Caller].arg.a
               /\ ~atom'.processing_active_ ]_vars

\* C14 witness: process has returned the input of a call with more than
\* 10 x block_size samples on a valid filter whose kernel an earlier call
\* had designed and whose dirty flag, set again since, is still set.
C14_Witness ==
  /\ Finished("process")
  /\ isValidForProcessing
  /\ loc[Caller].arg.a > 10 * atom.fft_size_
  /\ ret[Caller] = InputReturned(loc[Caller].arg.a)
  /\ atom.parameters_changed_
  /\ ~atom.processing_active_
  /\ Len(filter_kernel_.layers) > 0

\* ceil(len / n)
BlocksOf(len, n) == (len + n - 1) \div n

\* C15: a process call that was not bypassed, for an input of len samples
\* and block size n, ran ceil(len / n) transform pairs; block j starts at
\* input position (j - 1) * n and has n samples, the last one the rest; the
\* output is the blocks in order, len samples in all.
C15_BlockDecomposition ==
  (Finished("process") /\ ret[Caller].ok) =>
    LET len == loc[Caller].arg.a
        n == atom.fft_size_
        k == BlocksOf(len, n)
        out == ret[Caller].out
    IN  /\ 0 < len /\ len <= 10 * n
        /\ Len(out) = k
        /\ \A j \in 1 .. k :
             /\ out[j].pos = (j - 1) * n
             /\ out[j].len = IF j < k THEN n ELSE len - (k - 1) * n
        /\ ret[Caller].num = len

\* C15 witness: an input of two and a half blocks came back as three blocks,
\* the last one of half a block, each multiplied by the kernel.
C15_Witness ==
  /\ Finished("process") /\ ret[Caller].ok
  /\ 2 * loc[Caller].arg.a = 5 * atom.fft_size_
  /\ Len(ret[Caller].out) = 3
  /\ 2 * ret[Caller].out[3].len = atom.fft_size_
  /\ \A j \in 1 .. 3 : ret[Caller].out[j].filtered

\* C16: the step of a process call that updates the counters adds the
\* input length to the samples-processed value getStats() reports.
C16_SamplesProcessedCumulative ==
  [][ (pc[Caller] = "p_stats" /\ pc'[Caller] # "p_stats") =>
        StatsSnapshot'.samples_processed
          = StatsSnapshot.samples_processed + loc[Caller].arg.a ]_vars

\* C17: no step of reset() changes the protocol, the enabled flag, the
\* kernel, the passband edges or the dirty flag; on a filter that is not
\* initialized the call returns at once and changes nothing; on an
\* initialized filter both samples-processed counters are zero when it
\* returns.
C17_ResetFrame ==
  [][ StepOf("reset") =>
        /\ UNCHANGED << config_.protocol, atom.enabled_, filter_kernel_,
                        atom.passband_low_hz_, atom.passband_high_hz_,
                        atom.parameters_changed_ >>
        /\ ~atom.initialized_ => (pc'[Caller] = "idle" /\ UNCHANGED object)
        /\ (atom.initialized_ /\ pc'[Caller] = "idle") =>
             /\ atom'.total_samples_processed_ = 0
             /\ current_stats_'.samples_processed = 0 ]_vars

\* C17 witness: reset has returned on an enabled filter whose kernel has
\* been designed (so samples had been processed) and whose dirty flag a
\* later setPassband had set again; the counters are zero.
C17_Witness ==
  /\ Finished("reset")
  /\ atom.initialized_ /\ atom.enabled_
  /\ Len(filter_kernel_.layers) > 0
  /\ atom.parameters_changed_
  /\ atom.total_samples_processed_ = 0
  /\ current_stats_.samples_processed = 0

\* The filter is valid and its kernel is the design of the parameters as
\* they are.
KernelUpToDate ==
  /\ isValidForProcessing
  /\ Len(filter_kernel_.layers) > 0
  /\ filter_kernel_ = RedesignNow

\* C18: with the constructor's WFM configuration and the kernel designed
\* from it, getResponse(0) has returned 1.0, and getResponse(f) for f inside
\* Nyquist and beyond bandwidth/2 plus the transition width of two bins has
\* returned the floor 10^(-75/20).
C18_ResponseWFM ==
  (Finished("getResponse") /\ config_ = DefaultConfig /\ KernelUpToDate) =>
    LET f == loc[Caller].arg.a
    IN  /\ f = 0 => ret[Caller].num = GainOne
        /\ ( /\ Abs(f) <= config_.sample_rate \div 2
             /\ Abs(f) > config_.bandwidth \div 2
                           + 2 * atom.frequency_resolution_ )
           => ret[Caller].num = MinResponse(75)

\* C19: under USB with sharp cutoff and the kernel designed, when
\* getResponse(center + 1000) has returned g, getResponse(center - 100)
\* returns at most g / 10.
C19_OppositeSidebandDown20dB ==
  ( /\ Finished("getResponse")
    /\ loc[Caller].arg.a = atom.current_center_freq_ + 1000
    /\ config_.protocol = "USB" /\ atom.ssb_sharp_cutoff_
    /\ KernelUpToDate )
  => ResponseAt(atom.current_center_freq_ - 100) <= ret[Caller].num \div 10

\* C20: getResponse(f) has returned 1.0 if the filter is not initialized,
\* not enabled or has an empty kernel, and 0.0 if it is ready and
\* |f| > sample_rate / 2.
C20_ResponseEdgeCases ==
  Finished("getResponse") =>
    LET f == loc[Caller].arg.a
        ready == atom.initialized_ /\ atom.enabled_
                   /\ filter_kernel_.size > 0
    IN  /\ ~ready => ret[Caller].num = GainOne
        /\ (ready /\ 2 * Abs(f) > config_.sample_rate) => ret[Caller].num = 0

\* C20 witness: getResponse of a frequency beyond Nyquist has returned 0.0
\* on an enabled filter with a designed kernel.
C20_Witness ==
  /\ Finished("getResponse")
  /\ 2 * Abs(loc[Caller].arg.a) > config_.sample_rate
  /\ KernelUpToDate
  /\ ret[Caller].num = 0

\* C21: an initialize call that is in its wait for processing_active_ to
\* clear gets past the wait, however many process calls the processing
\* thread goes on to make.
C21_InitializeWaitEnds ==
  (pc["t2"] = "i_wait") ~> (pc["t2"] # "i_wait")

\* The caller's process call has been through updateFilterParameters.
Redesigned == loc[Caller].after_design = "u_clear"

\* C22: in a process call that is not bypassed, with no other thread
\* calling: if the dirty flag is set at the dirty test the call goes on to
\* updateFilterParameters, and when it then multiplies a block the kernel
\* is the design of the parameters as they are and the dirty flag is clear;
\* at the return every block was filtered with that kernel and the dirty
\* flag is clear. If the dirty flag is clear at the dirty test the call goes
\* straight to the block loop, and no step outside updateFilterParameters
\* changes the kernel.
C22_DirtyRedesignsFirst ==
  [][ (StepOf("process") /\ ~BypassCondition(loc'[Caller].arg.a)) =>
        /\ pc[Caller] = "p_dirty" =>
              pc'[Caller] = (IF atom.parameters_changed_ THEN "u_entry"
                             ELSE "p_loop")
        /\ (pc[Caller] \in { "idle", "p_active", "p_size", "p_dirty" }
              \/ ~Redesigned) => filter_kernel_' = filter_kernel_
        /\ pc[Caller] \in { "p_loop", "p_block", "p_mul", "p_inv", "p_stats",
                            "p_ret" } =>
              /\ filter_kernel_' = filter_kernel_
              /\ ~atom.parameters_changed_
              /\ Redesigned => filter_kernel_ = RedesignNow
        /\ pc[Caller] = "p_mul" =>
              /\ loc'[Caller].filtered
              /\ loc'[Caller].blk = filter_kernel_
        /\ pc[Caller] = "p_ret" =>
              /\ ~atom'.parameters_changed_
              /\ Len(ret'[Caller].out) = BlocksOf(loc[Caller].arg.a,
                                                  atom.fft_size_)
              /\ \A j \in 1 .. Len(ret'[Caller].out) :
                    /\ ret'[Caller].out[j].filtered
                    /\ ret'[Caller].out[j].kernel = filter_kernel_
    ]_vars

\* C22 witness: a process call that started dirty under USB is at its
\* second block, the first one filtered with the kernel designed and shaped
\* in this call, the dirty flag clear.
C22_Witness ==
  /\ pc[Caller] = "p_mul" /\ loc[Caller].op = "process"
  /\ Redesigned
  /\ config_.protocol = "USB"
  /\ Len(loc[Caller].out) = 1
  /\ loc[Caller].out[1].filtered
  /\ loc[Caller].out[1].kernel = RedesignNow
  /\ Len(filter_kernel_.layers) = 2
  /\ ~atom.parameters_changed_

\* C23: in every state in which initialized_ is set, one in the middle of a
\* re-initialization or of the destructor included, the kernel has fft_size_
\* entries.
C23_KernelLengthWhileInitialized ==
  atom.initialized_ => filter_kernel_.size = atom.fft_size_

\* Thread d is in designSSBFilter between its two passes: safelyUpdateKernel
\* has stored the base design and released filter_mutex_, applySSBShaping
\* has not taken it yet.
BetweenPasses(d) == pc[d] = "a_lock" /\ IsSSB(config_.protocol)

\* In this step thread r reads the kernel under filter_mutex_: getResponse
\* looks a bin up, or process multiplies a block.
ReadsKernel(r) ==
  \/ pc[r] = "gr_body" /\ pc'[r] = "idle"
  \/ pc[r] = "p_mul" /\ pc'[r] = "p_inv"

\* C24: no getResponse and no block multiplication reads the kernel while
\* a redesign under USB or LSB is between the base design pass and the
\* shaping pass, where the kernel is neither the previous nor the new one.
C24_RedesignAtomic ==
  [][ \A r \in Threads :
        ReadsKernel(r) =>
          ~ \E d \in Threads \ { r } :
              BetweenPasses(d) /\ ~SameKernel(filter_kernel_, RedesignNow)
    ]_vars

\* Thread t is in the block loop of process.
InBlockLoop(t) == pc[t] \in { "p_loop", "p_block", "p_mul", "p_inv" }

\* Thread t is in a process call that has stored processing_active_ and has
\* not returned.
InProcess(t) ==
  loc[t].op = "process" /\ pc[t] \notin { "idle", "p_active", "destroyed" }

\* C26: processing_active_ is set whenever a process call is in its block
\* loop, two overlapping calls included, and it is set only while a process
\* call is between its entry test and its return.
C26_ActiveFlagCoversCalls ==
  /\ (\E t \in Threads : InBlockLoop(t)) => atom.processing_active_
  /\ atom.processing_active_ => \E t \in Threads : InProcess(t)

\* C27: on an initialized filter with no call in flight, after any sequence
\* of configure, setCenterFrequency, setProtocol and reset calls (and of the
\* other mutators), current_center_freq_ equals config_.center_frequency,
\* the value getConfiguration returns.
C27_CenterFrequencyMirrored ==
  (pc[Caller] = "idle" /\ atom.initialized_) =>
    atom.current_center_freq_ = config_.center_frequency

\* This step is the design pass of safelyUpdateKernel under a non-SSB
\* protocol.
NonSSBDesignPass ==
  pc[Caller] = "k_body" /\ pc'[Caller] # "k_body"
    /\ ~IsSSB(config_.protocol)

\* The frequency of bin i of a kernel of n bins.
FreqOfBin(i) ==
  IF i <= atom.fft_size_ \div 2 THEN i * atom.frequency_resolution_
  ELSE (i - atom.fft_size_) * atom.frequency_resolution_

LowEdge == atom.passband_low_hz_ + atom.current_center_freq_
HighEdge == atom.passband_high_hz_ + atom.current_center_freq_
TransitionWidth == 2 * atom.frequency_resolution_
Floor == MinResponse(config_.stopband_attenuation)

\* The value of the linear ramp at frequency f (in units of 10^-9, to three
\* decimals), for f within the transition width outside an edge.
OnLowRamp(f) == f >= LowEdge - TransitionWidth /\ f < LowEdge
OnHighRamp(f) == f > HighEdge /\ f <= HighEdge + TransitionWidth
RampValue(f) ==
  IF OnLowRamp(f)
  THEN (((f - (LowEdge - TransitionWidth)) * 1000) \div TransitionWidth)
         * 1000000
  ELSE ((((HighEdge + TransitionWidth) - f) * 1000) \div TransitionWidth)
         * 1000000

\* The gain bin i is to hold after the pass; floored says whether the ramp
\* is raised to the floor where it lies below it.
GainAfterPass(i, floored) ==
  LET f == FreqOfBin(i)
  IN  IF f >= LowEdge /\ f <= HighEdge THEN GainOne
      ELSE IF OnLowRamp(f) \/ OnHighRamp(f)
      THEN (IF floored THEN Max(RampValue(f), Floor) ELSE RampValue(f))
      ELSE Floor

\* C25: a design pass under WFM, NBFM or AM leaves in every bin i, of
\* frequency i x resolution for i <= N/2 and (i - N) x resolution above:
\* gain 1 when the frequency is in [low, high], the larger of the linear
\* ramp and min_response when it is within 2 x resolution outside an edge,
\* and min_response otherwise; no gain is below min_response or above 1.
C25_NonSSBGains ==
  [][ NonSSBDesignPass =>
        /\ filter_kernel_'.size = atom.fft_size_
        /\ \A i \in 0 .. atom.fft_size_ - 1 :
              /\ KernelGain(filter_kernel_', i) = GainAfterPass(i, TRUE)
              /\ KernelGain(filter_kernel_', i) >= Floor
              /\ KernelGain(filter_kernel_', i) <= GainOne
    ]_vars

\* C25 as stated: within 2 x resolution outside an edge the gain is the
\* value of the linear ramp itself.
C25_RampUnfloored ==
  [][ NonSSBDesignPass =>
        \A i \in 0 .. atom.fft_size_ - 1 :
          KernelGain(filter_kernel_', i) = GainAfterPass(i, FALSE)
    ]_vars

\* C25 witness: the kernel was designed under AM with the passband
\* [-100, 3000]: bin -16000 Hz is on the ramp at 0.006, below the floor
\* 0.01 it holds, bin -8000 Hz holds its ramp value above the floor, bin 0
\* holds 1 and bin 24000 Hz the floor.
C25_Witness ==
  /\ pc[Caller] = "idle" /\ KernelUpToDate
  /\ config_.protocol = "AM" /\ Floor = 10000000
  /\ LowEdge = 0 - 100 /\ HighEdge = 3000
  /\ OnLowRamp(FreqOfBin(254)) /\ RampValue(FreqOfBin(254)) < Floor
  /\ KernelGain(filter_kernel_, 254) = Floor
  /\ OnLowRamp(FreqOfBin(255))
  /\ KernelGain(filter_kernel_, 255) = RampValue(FreqOfBin(255))
  /\ KernelGain(filter_kernel_, 255) > Floor
  /\ KernelGain(filter_kernel_, 0) = GainOne
  /\ KernelGain(filter_kernel_, 3) = Floor

====
